---------------------------- MODULE Spec2Model ----------------------------
(***************************************************************************)
(* Verification model of climborazo/facebook_scraper.                      *)
(*                                                                         *)
(* Eight state machines share this module:                                 *)
(*   SpecSelect   the candidate selection of EXTRACT_JS                    *)
(*                (src/core_extractor.py): signature query, repeated-class *)
(*                fallback, de-duplication, numbering;                     *)
(*   SpecExtract  the per-candidate harvesting loop of EXTRACT_JS, one DOM *)
(*                sub-element per step;                                    *)
(*   SpecHarvest  the same loop over several candidates, with harvesting   *)
(*                steps that throw;                                        *)
(*   SpecResolve  the resolver functions of src/facebook_adapter.py        *)
(*                applied to candidate lists;                              *)
(*   SpecDate     parse_facebook_date / is_within_period and the period    *)
(*                filter loop of main() (src/facebook_scraper.py), with    *)
(*                the wall clock as a variable;                            *)
(*   SpecNormalize  normalize / normalize_lower (src/utils.py);            *)
(*   SpecExpand   expand_all_comments (src/facebook_scraper.py), one       *)
(*                browser call per step; FairSpecExpand adds that every    *)
(*                call returns;                                            *)
(*   SpecMain     one run of main() (src/facebook_scraper.py) from the     *)
(*                prompts to the cleanup.                                  *)
(*                                                                         *)
(* Strings are sequences of tokens; a token is a character or an           *)
(* indivisible word.  The tokens " ", "\t" and "\n" are whitespace.         *)
(***************************************************************************)
EXTENDS Integers, Sequences, FiniteSets, TLC

VARIABLES
    \* ---- SpecExtract: locals of the `for (const el of candidates)` body
    pc,          \* harvesting step the body is at
    index,       \* `index`, 1-based number of the candidate being harvested
    rich,        \* which sub-element family of this candidate is long
    scan,        \* sub-elements of the current query already iterated
    dataAttrs,   \* `res` of getDataAttrs: name -> value
    authors,     \* `authors`
    timestamps,  \* `timestamps`
    links,       \* `links`
    images,      \* `images`
    pushed,      \* the RawBlock handed to blocks.push, <<>> before the push
    fullText,    \* `fullText`
    thrown,      \* the harvesting steps of this pass that threw: <<index, step>>
    \* ---- SpecResolve
    call,        \* the last resolver call: function, arguments, return value
    \* ---- SpecDate
    dpc,         \* where the period filter is with the current post
    clock,       \* datetime.now()
    rec,         \* the timestamp string of the post being filtered
    days,        \* the window argument of is_within_period
    caller,      \* who asked: main()'s filter or a direct call
    parsed,      \* `parsed_date`
    verdict,     \* kept, dropped, or raised
    \* ---- SpecMain: locals of main() and the world it acts on
    mpc,         \* where main() is
    opts,        \* period_days, filter_text, do_scroll, scroll_steps, do_expand
    playwright,  \* the playwright driver: none, started, stopped
    browser,     \* the CDP connection: none, connected, closed
    page,        \* ctx.pages[0]: its url and the blocks its DOM yields
    log,         \* what the run has done to the page and the disk, in order
    raw_blocks,  \* `raw_blocks`
    adapted,     \* `adapted`
    results,     \* what is_within_period returned, post by post
    report,      \* the author groups written to the report file
    extracted,   \* the list extract_raw_blocks returned, as it is now
    returned,    \* the list adapt_facebook_blocks returned, as it is now
    \* ---- SpecExpand: locals of expand_all_comments and the last browser call
    epc,         \* where expand_all_comments is
    max_clicks,  \* `max_clicks`
    clicks_made, \* `clicks_made`
    iteration,   \* `iteration`
    found_any,   \* `found_any`
    selector,    \* 1-based position of `selector` in `selectors`
    offered,     \* len(buttons), what query_selector_all returned
    tried,       \* buttons of this selector the inner loop has taken
    last,        \* the last browser call and its outcome
    \* ---- SpecSelect: the candidate selection of EXTRACT_JS
    spc,         \* where the snippet is
    dom,         \* the document: how many elements of each shape it holds
    candidates,  \* `candidates`
    extra,       \* `extra.slice(0, 200)`, <<>> when the fallback did not run
    fallback,    \* whether the body of `if (candidates.length < 5)` ran
    yielded      \* `blocks`: the index and the element of every block

extractVars == <<pc, index, rich, scan, dataAttrs, authors, timestamps,
                 links, images, pushed, fullText, thrown>>

dateVars == <<dpc, clock, rec, days, caller, parsed, verdict>>

dateLocals == <<dpc, rec, days, caller, parsed, verdict>>

mainVars == <<mpc, opts, playwright, browser, page, log, raw_blocks, adapted,
              results, report, extracted, returned>>

expandVars == <<epc, max_clicks, clicks_made, iteration, found_any, selector,
                offered, tried, last>>

selectVars == <<spc, dom, candidates, extra, fallback, yielded>>

vars == <<extractVars, call, dateVars, mainVars, expandVars, selectVars>>

----------------------------------------------------------------------------
(* Bounds of the model *)

\* sub-elements offered to the author / timestamp scans of a rich candidate
MaxScan == 6
\* attributes offered to getDataAttrs on a rich candidate
MaxAttrs == 11
\* anchors / images offered to the link / image scans of a rich candidate
MaxAnchors == 31
\* sub-elements of a family the candidate is not rich in
MaxPlain == 1
\* leading sub-elements of a scan whose shape varies freely
MaxVaried == 1
\* candidate elements harvested in one pass
MaxCandidates == 1
\* length of the candidate and link lists handed to the resolver functions
MaxCandidateList == 3
\* sub-minute steps the clock takes during the period filter
MaxTicks == 2
\* length of the texts handed to normalize
MaxText == 5
\* blocks the page yields in one run
MaxBlocks == 3
\* scroll steps the operator asks for
MaxScroll == 2
\* harvesting steps that throw in one extraction pass
MaxThrows == 1
\* candidates of a pass in which harvesting steps throw
MaxPass == 2
\* the largest click budget handed to expand_all_comments
MaxBudget == 51
\* buttons one query_selector_all returns
MaxButtons == 6
\* selectors of the list that match elements of the page
MaxLive == 1
\* elements of one shape in a document
MaxRun == 201
\* sub-elements such a candidate offers to every scan
MaxEven == 2

\* days of the month, numbers and windows offered to the date functions
StampDays == {1, 14, 28}
StampNumbers == {0, 1, 7, 10, 30, 1000000}
Windows == {0, 7, 30, 1000000}

(* Program constants *)
FallbackBelow == 5
FrequentFrom == 5
ExtraCap == 200
PassCap == 50
ButtonCap == 5
NumSelectors == 10
AuthorCap == 5
TimestampCap == 5
LinkCap == 30
ImageCap == 30
DataAttrCap == 10

----------------------------------------------------------------------------
(* Strings *)

\* null / None: an absent attribute; a reserved one-token value, never text
Null == <<"<null>">>
Empty == <<>>
WS == {" ", "\t", "\n"}

RECURSIVE TrimLeft(_)
TrimLeft(s) ==
    IF s # <<>> /\ Head(s) \in WS THEN TrimLeft(Tail(s)) ELSE s

RECURSIVE TrimRight(_)
TrimRight(s) ==
    IF s # <<>> /\ s[Len(s)] \in WS
        THEN TrimRight(SubSeq(s, 1, Len(s) - 1))
        ELSE s

\* String.prototype.trim / str.strip
Trim(s) == TrimRight(TrimLeft(s))

\* JS `x || y`: null and the empty string are falsy
Or(x, y) == IF x = Null \/ x = Empty THEN y ELSE x

\* Array.prototype.includes
Includes(list, v) == \E i \in 1..Len(list) : list[i] = v

Range(s) == {s[i] : i \in 1..Len(s)}

NoDuplicates(list) ==
    \A i, j \in 1..Len(list) : list[i] = list[j] => i = j

----------------------------------------------------------------------------
(* SpecExtract: the harvesting steps of EXTRACT_JS *)

Families == {"attrs", "authors", "timestamps", "links", "images"}

Names == <<"a", "b", "c", "d", "e", "f", "g", "h", "i", "j", "k", "l", "m">>

\* the text an author sub-element contributes: (a.innerText || "").trim()
AuthorText(a) == Trim(Or(a.innerText, Empty))

\* the value a timestamp sub-element contributes
TimestampValue(t) ==
    Trim(Or(Or(Or(Or(t.datetime, t.title), t.ariaLabel), t.innerText), Empty))

\* AuthorsPush with the cap test off by one (`<=` for `<`)
AuthorsPushOffByOne(list, a) ==
    LET t == AuthorText(a)
    IN  IF t # Empty /\ ~Includes(list, t) /\ Len(list) <= AuthorCap
            THEN Append(list, t)
            ELSE list

\* one iteration of `for (const a of aEls)`
AuthorsPush(list, a) ==
    LET t == AuthorText(a)
    IN  IF t # Empty /\ ~Includes(list, t) /\ Len(list) < AuthorCap
            THEN Append(list, t)
            ELSE list

\* TimestampsPush without the `!timestamps.includes(val)` test
TimestampsPushNoDedup(list, t) ==
    LET val == TimestampValue(t)
    IN  IF val # Empty /\ Len(list) < TimestampCap
            THEN Append(list, val)
            ELSE list

\* one iteration of `for (const t of tEls)`
TimestampsPush(list, t) ==
    LET val == TimestampValue(t)
    IN  IF val # Empty /\ ~Includes(list, val) /\ Len(list) < TimestampCap
            THEN Append(list, val)
            ELSE list

\* an anchor is skipped when its trimmed href is empty
LinkSkipped(a) == Trim(Or(a.href, Empty)) = Empty

LinkEntry(a) ==
    [href |-> Trim(Or(a.href, Empty)), text |-> Trim(Or(a.innerText, Empty))]

\* LinksPush that drops an entry already recorded
LinksPushDedup(list, a) ==
    IF LinkSkipped(a) \/ Includes(list, LinkEntry(a))
        THEN list
        ELSE Append(list, LinkEntry(a))

\* one iteration of `for (const a of linkEls)`, up to the break test
LinksPush(list, a) ==
    IF LinkSkipped(a) THEN list ELSE Append(list, LinkEntry(a))

\* `if (links.length >= 30) break;` is reached only after a push
LinksBreak(list, a) == ~LinkSkipped(a) /\ Len(LinksPush(list, a)) >= LinkCap

ImageEntry(img) ==
    [src    |-> Trim(Or(Or(img.src, img.dataSrc), Empty)),
     srcset |-> Trim(Or(img.srcset, Empty)),
     alt    |-> Trim(Or(img.alt, Empty))]

ImageSkipped(img) ==
    ImageEntry(img).src = Empty /\ ImageEntry(img).srcset = Empty

\* one iteration of `for (const img of imgEls)`, up to the break test
ImagesPush(list, img) ==
    IF ImageSkipped(img) THEN list ELSE Append(list, ImageEntry(img))

ImagesBreak(list, img) ==
    ~ImageSkipped(img) /\ Len(ImagesPush(list, img)) >= ImageCap

\* attr.name.startsWith("data-")
IsDataAttr(attr) == Head(attr.name) = "data-"

\* one iteration of `for (const attr of el.attributes)` in getDataAttrs
GetDataAttrsStep(res, attr) ==
    IF IsDataAttr(attr) /\ Cardinality(DOMAIN res) < DataAttrCap
        THEN [n \in (DOMAIN res) \cup {attr.name} |->
                 IF n = attr.name THEN attr.value ELSE res[n]]
        ELSE res

(* The DOM: the sub-elements a query may yield next, given those already   *)
(* iterated.  Every position offers a fresh string, taken from Names in    *)
(* order, and a padded repeat of an earlier one; the first MaxVaried       *)
(* positions of the family the candidate is rich in also offer null,       *)
(* empty, blank and padded shapes.                                         *)

FreshName(seen) ==
    Names[CHOOSE i \in 1..Len(Names) :
            /\ <<Names[i]>> \notin seen
            /\ \A j \in 1..(i - 1) : <<Names[j]>> \in seen]

Varied(family, pos) == rich = family /\ pos <= MaxVaried

Texts(seen, family, pos) ==
    LET fresh  == FreshName(seen)
        known  == {<<" ">> \o s : s \in seen \cap {<<Names[1]>>, <<"z">>}}
        varied == {Null, Empty, <<" ">>, <<" ", fresh, " ">>}
    IN  {<<fresh>>} \cup known \cup (IF Varied(family, pos) THEN varied ELSE {})

AuthorElements(sc) ==
    {[innerText |-> t] :
        t \in Texts({AuthorText(sc[i]) : i \in 1..Len(sc)} \ {Empty},
                    "authors", Len(sc) + 1)}

Decoy == <<"z">>

\* the attribute a timestamp sub-element carries its text in: `datetime`
\* (a later attribute, when present, is shadowed), or, among the varied
\* shapes, `title`, `aria-label` or the rendered text
TimestampShapes(v, pos) ==
    {[datetime |-> v, title |-> Null, ariaLabel |-> Null, innerText |-> Decoy]}
    \cup
    (IF Varied("timestamps", pos) /\ v \notin {Empty, <<" ">>}
        THEN {[datetime |-> Null, title |-> v, ariaLabel |-> Decoy,
               innerText |-> Null],
              [datetime |-> Empty, title |-> Empty, ariaLabel |-> v,
               innerText |-> Decoy],
              [datetime |-> Null, title |-> Null, ariaLabel |-> Null,
               innerText |-> v]}
        ELSE {})

TimestampElements(sc) ==
    UNION {TimestampShapes(v, Len(sc) + 1) :
        v \in Texts({TimestampValue(sc[i]) : i \in 1..Len(sc)} \ {Empty},
                    "timestamps", Len(sc) + 1)}

AnchorElements(sc) ==
    {[href |-> <<"/a">>, innerText |-> <<"A">>]}
    \cup
    (IF Varied("links", Len(sc) + 1)
        THEN {[href |-> Empty, innerText |-> <<"A">>],
              [href |-> <<" ">>, innerText |-> <<"A">>],
              [href |-> <<" ", "/a">>, innerText |-> <<"A", " ">>],
              [href |-> <<"/b">>, innerText |-> Null]}
        ELSE {})

ImageElements(sc) ==
    {[src |-> <<"/i.jpg">>, dataSrc |-> Null, srcset |-> Null,
      alt |-> <<"pic">>]}
    \cup
    (IF Varied("images", Len(sc) + 1)
        THEN {[src |-> Null, dataSrc |-> Null, srcset |-> Null,
               alt |-> <<"pic">>],
              [src |-> <<" ">>, dataSrc |-> <<"/d.jpg">>, srcset |-> Null,
               alt |-> Null],
              [src |-> Null, dataSrc |-> <<"/d.jpg">>, srcset |-> Null,
               alt |-> Null],
              [src |-> Null, dataSrc |-> Null,
               srcset |-> <<"/s1.jpg", " ", "1x">>, alt |-> Null]}
        ELSE {})

\* attribute names are unique within an element
AttrElements(sc) ==
    LET used == {sc[i].name : i \in 1..Len(sc)}
        seen == {<<n[2]>> : n \in {m \in used : Head(m) = "data-"}}
    IN  {[name |-> <<"data-", FreshName(seen)>>, value |-> <<"v">>]}
        \cup
        {[name |-> n, value |-> <<"v">>] :
            n \in {<<"class">>, <<"id">>} \ used}

ScanLimit(family, max) ==
    CASE rich = family -> max
      [] rich = "even" -> MaxEven
      [] OTHER -> MaxPlain

\* the steps of the loop body that run inside a try block
HarvestSteps == {"text", "authors", "timestamps", "links", "images"}

\* sub-elements a rich candidate offers to a harvesting step
ScanMax(step) ==
    CASE step = "text" -> 1
      [] step \in {"authors", "timestamps"} -> MaxScan
      [] step \in {"links", "images"} -> MaxAnchors

\* el.innerText of a candidate
InnerTexts == {<<"body", " ">>}

NoBlock == <<>>

\* no resolver call has been made
NoCallYet == [fn |-> "none", arg |-> <<>>, base |-> <<>>, ret |-> <<>>]

\* `for (const el of candidates) { index += 1; ...` with fresh locals
NextCandidate ==
    /\ pc = "next"
    /\ index < MaxCandidates
    /\ index' = index + 1
    /\ rich' \in Families
    /\ pc' = "attrs"
    /\ scan' = <<>>
    /\ dataAttrs' = <<>>
    /\ authors' = <<>>
    /\ timestamps' = <<>>
    /\ links' = <<>>
    /\ images' = <<>>
    /\ fullText' = Empty
    /\ pushed' = NoBlock
    /\ UNCHANGED thrown

\* the same loop head over candidates that are equally long in every family
NextEvenCandidate ==
    /\ pc = "next"
    /\ index < MaxPass
    /\ index' = index + 1
    /\ rich' = "even"
    /\ pc' = "attrs"
    /\ scan' = <<>>
    /\ dataAttrs' = <<>>
    /\ authors' = <<>>
    /\ timestamps' = <<>>
    /\ links' = <<>>
    /\ images' = <<>>
    /\ fullText' = Empty
    /\ pushed' = NoBlock
    /\ UNCHANGED thrown

AttrStep ==
    /\ pc = "attrs"
    /\ Len(scan) < ScanLimit("attrs", MaxAttrs)
    /\ \E attr \in AttrElements(scan) :
        /\ dataAttrs' = GetDataAttrsStep(dataAttrs, attr)
        /\ scan' = Append(scan, attr)
    /\ UNCHANGED <<pc, index, rich, authors, timestamps, links, images,
                   pushed, fullText, thrown>>

AttrDone ==
    /\ pc = "attrs"
    /\ pc' = "text"
    /\ scan' = <<>>
    /\ UNCHANGED <<index, rich, dataAttrs, authors, timestamps, links,
                   images, pushed, fullText, thrown>>

\* the step that follows a harvesting step in the loop body
StepAfter(step) ==
    CASE step = "text" -> "authors"
      [] step = "authors" -> "timestamps"
      [] step = "timestamps" -> "links"
      [] step = "links" -> "images"
      [] step = "images" -> "push"

\* let fullText = ""; try { fullText = (el.innerText || "").trim(); }
TextStep ==
    /\ pc = "text"
    /\ \E innerText \in InnerTexts : fullText' = Trim(Or(innerText, Empty))
    /\ pc' = "authors"
    /\ UNCHANGED <<index, rich, scan, dataAttrs, authors, timestamps, links,
                   images, pushed, thrown>>

\* try { ... } catch (e) {}: the query, or reading the next sub-element,
\* throws; the local keeps what the loop pushed before, and the body goes
\* on with the statement after the catch
HarvestThrow ==
    /\ pc \in HarvestSteps
    /\ Len(scan) < ScanLimit(pc, ScanMax(pc))
    /\ Cardinality(thrown) < MaxThrows
    /\ thrown' = thrown \cup {<<index, pc>>}
    /\ pc' = StepAfter(pc)
    /\ scan' = <<>>
    /\ UNCHANGED <<index, rich, dataAttrs, authors, timestamps, links,
                   images, pushed, fullText>>

AuthorStep ==
    /\ pc = "authors"
    /\ Len(scan) < ScanLimit("authors", MaxScan)
    /\ \E a \in AuthorElements(scan) :
        /\ authors' = AuthorsPush(authors, a)
        /\ scan' = Append(scan, a)
    /\ UNCHANGED <<pc, index, rich, dataAttrs, timestamps, links, images,
                   pushed, fullText, thrown>>

AuthorDone ==
    /\ pc = "authors"
    /\ pc' = "timestamps"
    /\ scan' = <<>>
    /\ UNCHANGED <<index, rich, dataAttrs, authors, timestamps, links,
                   images, pushed, fullText, thrown>>

TimestampStep ==
    /\ pc = "timestamps"
    /\ Len(scan) < ScanLimit("timestamps", MaxScan)
    /\ \E t \in TimestampElements(scan) :
        /\ timestamps' = TimestampsPush(timestamps, t)
        /\ scan' = Append(scan, t)
    /\ UNCHANGED <<pc, index, rich, dataAttrs, authors, links, images,
                   pushed, fullText, thrown>>

TimestampDone ==
    /\ pc = "timestamps"
    /\ pc' = "links"
    /\ scan' = <<>>
    /\ UNCHANGED <<index, rich, dataAttrs, authors, timestamps, links,
                   images, pushed, fullText, thrown>>

LinkStep ==
    /\ pc = "links"
    /\ Len(scan) < ScanLimit("links", MaxAnchors)
    /\ \E a \in AnchorElements(scan) :
        /\ links' = LinksPush(links, a)
        /\ scan' = Append(scan, a)
        /\ pc' = IF LinksBreak(links, a) THEN "linksBreak" ELSE "links"
    /\ UNCHANGED <<index, rich, dataAttrs, authors, timestamps, images,
                   pushed, fullText, thrown>>

LinkDone ==
    /\ pc \in {"links", "linksBreak"}
    /\ pc' = "images"
    /\ scan' = <<>>
    /\ UNCHANGED <<index, rich, dataAttrs, authors, timestamps, links,
                   images, pushed, fullText, thrown>>

ImageStep ==
    /\ pc = "images"
    /\ Len(scan) < ScanLimit("images", MaxAnchors)
    /\ \E img \in ImageElements(scan) :
        /\ images' = ImagesPush(images, img)
        /\ scan' = Append(scan, img)
        /\ pc' = IF ImagesBreak(images, img) THEN "imagesBreak" ELSE "images"
    /\ UNCHANGED <<index, rich, dataAttrs, authors, timestamps, links,
                   pushed, fullText, thrown>>

ImageDone ==
    /\ pc \in {"images", "imagesBreak"}
    /\ pc' = "push"
    /\ scan' = <<>>
    /\ UNCHANGED <<index, rich, dataAttrs, authors, timestamps, links,
                   images, pushed, fullText, thrown>>

\* blocks.push({...})
PushBlock ==
    /\ pc = "push"
    /\ pushed' = [index               |-> index,
                  dataAttrs           |-> dataAttrs,
                  text                |-> fullText,
                  authorCandidates    |-> authors,
                  timestampCandidates |-> timestamps,
                  links               |-> links,
                  images              |-> images]
    /\ pc' = "next"
    /\ UNCHANGED <<index, rich, scan, dataAttrs, authors, timestamps, links,
                   images, fullText, thrown>>

----------------------------------------------------------------------------
(* SpecResolve: the resolver functions of facebook_adapter.py.  Author and *)
(* timestamp strings are sequences of characters; URLs are sequences of    *)
(* URL tokens.                                                             *)

\* str.lower, character by character
LowerChar(c) ==
    CASE c = "A" -> "a"
         [] c = "B" -> "b"
         [] c = "C" -> "c"
         [] c = "D" -> "d"
         [] c = "E" -> "e"
         [] c = "F" -> "f"
         [] c = "G" -> "g"
         [] c = "H" -> "h"
         [] c = "I" -> "i"
         [] c = "J" -> "j"
         [] c = "K" -> "k"
         [] c = "L" -> "l"
         [] c = "M" -> "m"
         [] c = "N" -> "n"
         [] c = "O" -> "o"
         [] c = "P" -> "p"
         [] c = "Q" -> "q"
         [] c = "R" -> "r"
         [] c = "S" -> "s"
         [] c = "T" -> "t"
         [] c = "U" -> "u"
         [] c = "V" -> "v"
         [] c = "W" -> "w"
         [] c = "X" -> "x"
         [] c = "Y" -> "y"
         [] c = "Z" -> "z"
         [] OTHER -> c

Lower(s) == [i \in 1..Len(s) |-> LowerChar(s[i])]

UnknownAuthor == <<"U", "n", "k", "n", "o", "w", "n", " ", "A", "u", "t", "h", "o", "r">>

\* `a2.lower() in ("comment", "reply", "shared", "share")`
NoiseWords ==
    {<<"c", "o", "m", "m", "e", "n", "t">>,
     <<"r", "e", "p", "l", "y">>,
     <<"s", "h", "a", "r", "e", "d">>,
     <<"s", "h", "a", "r", "e">>}

\* AuthorFilterStep that compares with the noise words case-sensitively
AuthorFilterStepCaseSensitive(filtered, a) ==
    IF a = Null \/ a = Empty
        THEN filtered
        ELSE LET a2 == Trim(a)
             IN  IF Len(a2) < 2
                     THEN filtered
                     ELSE IF a2 \in NoiseWords
                              THEN filtered
                              ELSE Append(filtered, a2)

\* the loop body of clean_author: `filtered` after candidate a
AuthorFilterStep(filtered, a) ==
    IF a = Null \/ a = Empty
        THEN filtered
        ELSE LET a2 == Trim(a)
             IN  IF Len(a2) < 2
                     THEN filtered
                     ELSE IF Lower(a2) \in NoiseWords
                              THEN filtered
                              ELSE Append(filtered, a2)

RECURSIVE AuthorFilter(_, _)
AuthorFilter(filtered, rest) ==
    IF rest = <<>>
        THEN filtered
        ELSE AuthorFilter(AuthorFilterStep(filtered, Head(rest)), Tail(rest))

\* clean_author(author_list)
CleanAuthor(author_list) ==
    IF author_list = <<>>
        THEN UnknownAuthor
        ELSE LET filtered == AuthorFilter(<<>>, author_list)
             IN  IF filtered = <<>> THEN UnknownAuthor ELSE filtered[1]

\* number of leading elements of a descending list that x does not precede
KeepBefore(sorted, x) ==
    Cardinality({i \in 1..Len(sorted) : Len(sorted[i]) >= Len(x)})

\* an insertion that puts x before the elements of equal length
InsertByLenUnstable(sorted, x) ==
    LET k == Cardinality({i \in 1..Len(sorted) : Len(sorted[i]) > Len(x)})
    IN  SubSeq(sorted, 1, k) \o <<x>> \o SubSeq(sorted, k + 1, Len(sorted))

\* stable insertion into a list sorted by descending length: x goes after
\* every element at least as long, as sorted(..., key=len, reverse=True) does
InsertByLen(sorted, x) ==
    LET k == KeepBefore(sorted, x)
    IN  SubSeq(sorted, 1, k) \o <<x>> \o SubSeq(sorted, k + 1, Len(sorted))

RECURSIVE SortedByLenDesc(_, _)
SortedByLenDesc(sorted, rest) ==
    IF rest = <<>>
        THEN sorted
        ELSE SortedByLenDesc(InsertByLen(sorted, Head(rest)), Tail(rest))

\* clean_timestamp(ts_list)
CleanTimestamp(ts_list) ==
    IF ts_list = <<>>
        THEN Empty
        ELSE SortedByLenDesc(<<>>, ts_list)[1]

\* URL tokens: an origin token (scheme and host), "/" and path words
Origins == {"https://site.example", "https://cdn.example"}

IsAbsoluteUrl(u) == u # <<>> /\ Head(u) \in Origins

SlashTokens == {"/", "/posts/"}

\* the URL up to and including its last token that ends in a slash
RECURSIVE UrlDirectory(_)
UrlDirectory(u) ==
    IF Len(u) <= 1 \/ u[Len(u)] \in SlashTokens
        THEN u
        ELSE UrlDirectory(SubSeq(u, 1, Len(u) - 1))

\* urllib.parse.urljoin(base, url) for an absolute base
Urljoin(base, url) ==
    IF url = Null \/ url = Empty
        THEN base
        ELSE IF IsAbsoluteUrl(url)
            THEN url
            ELSE IF Head(url) \in SlashTokens
                THEN <<Head(base)>> \o url
                ELSE LET dir == UrlDirectory(base)
                     IN  (IF Len(dir) = 1 THEN dir \o <<"/">> ELSE dir) \o url

\* `marker in abs_href`: the tokens that hold the marker as a substring
TokensWith(marker) ==
    CASE marker = "/posts/" -> {"/posts/"}
      [] marker = "permalink" -> {"permalink", "permalink.php", "multi_permalinks"}
      [] marker = "__cft__" -> {"?__cft__[0]=x"}
      [] marker = "multi_permalinks" -> {"multi_permalinks"}
      [] marker = "__tn__" -> {"?__tn__=R"}

Contains(url, marker) == \E i \in 1..Len(url) : url[i] \in TokensWith(marker)

\* lk.get("href"): None when the key is missing
GetHref(lk) == lk.href

\* first-match search that tries each marker over all links in turn
RECURSIVE PermalinkByMarker(_, _, _)
PermalinkByMarker(markers, links_, page_url) ==
    IF markers = <<>>
        THEN Urljoin(page_url, GetHref(links_[1]))
        ELSE LET hits == {i \in 1..Len(links_) :
                     Contains(Urljoin(page_url, Or(GetHref(links_[i]), Empty)),
                              Head(markers))}
             IN  IF hits # {}
                     THEN Urljoin(page_url,
                              Or(GetHref(links_[CHOOSE i \in hits :
                                     \A j \in hits : i <= j]), Empty))
                     ELSE PermalinkByMarker(Tail(markers), links_, page_url)

ExtractPermalinkByMarker(links_, page_url) ==
    IF links_ = <<>>
        THEN Empty
        ELSE PermalinkByMarker(
                 <<"/posts/", "permalink", "__cft__", "multi_permalinks",
                   "__tn__">>, links_, page_url)

\* the `for lk in links` loop of extract_permalink from link i on
RECURSIVE PermalinkScan(_, _, _)
PermalinkScan(links_, i, page_url) ==
    IF i > Len(links_)
        THEN Urljoin(page_url, GetHref(links_[1]))
        ELSE LET href == Or(GetHref(links_[i]), Empty)
                 abs_href == Urljoin(page_url, href)
             IN  IF Contains(abs_href, "/posts/") THEN abs_href
                 ELSE IF Contains(abs_href, "permalink") THEN abs_href
                 ELSE IF Contains(abs_href, "__cft__") THEN abs_href
                 ELSE IF Contains(abs_href, "multi_permalinks") THEN abs_href
                 ELSE IF Contains(abs_href, "__tn__") THEN abs_href
                 ELSE PermalinkScan(links_, i + 1, page_url)

\* extract_permalink(links, page_url)
ExtractPermalink(links_, page_url) ==
    IF links_ = <<>> THEN Empty ELSE PermalinkScan(links_, 1, page_url)

(* Inputs of the resolver calls *)

AuthorStrings ==
    {Null, Empty, <<" ">>, <<"J">>, <<" ", "J", " ">>, <<"J", "o">>,
     <<" ", "J", "o", " ">>,
     <<"J", "a", "n", "e", " ", "D", "o", "e">>,
     <<"R", "e", "p", "l", "y">>,
     <<" ", "S", "H", "A", "R", "E", " ">>,
     <<"s", "h", "a", "r", "e", "d">>,
     <<"C", "o", "m", "m", "e", "n", "t">>,
     <<"C", "o", "m", "m", "e", "n", "t", "s">>}

TimestampStrings ==
    {<<"2", "h">>,
     <<"3", "d">>,
     <<"1", "4", " ", "N", "o", "v">>,
     <<"N", "o", "v", " ", "1", "4">>,
     <<"1", "4", " ", "N", "o", "v", "e", "m", "b", "e", "r", " ", "a", "t", " ", "1", "0", ":", "2", "3">>}

PageUrls ==
    {<<"https://site.example", "/">>,
     <<"https://site.example", "/", "groups", "/", "g">>,
     <<"https://site.example", "/", "u", "/posts/", "9">>}

Hrefs ==
    {Null, Empty,
     <<"/", "a">>,
     <<"b">>,
     <<"/", "x", "/posts/", "123">>,
     <<"https://cdn.example", "/", "permalink.php">>,
     <<"/", "p", "?__cft__[0]=x">>,
     <<"/", "groups", "/", "multi_permalinks">>,
     <<"photo", "?__tn__=R">>}

LinkRecords == {[href |-> h, text |-> <<"t">>] : h \in Hrefs}

SeqsUpTo(S, n) == UNION {[1..k -> S] : k \in 0..n}

NoCall == NoCallYet

CallCleanAuthor ==
    /\ call = NoCall
    /\ \E author_list \in SeqsUpTo(AuthorStrings, MaxCandidateList) :
        call' = [fn |-> "clean_author", arg |-> author_list, base |-> <<>>,
                 ret |-> CleanAuthor(author_list)]

CallCleanTimestamp ==
    /\ call = NoCall
    /\ \E ts_list \in SeqsUpTo(TimestampStrings, MaxCandidateList) :
        call' = [fn |-> "clean_timestamp", arg |-> ts_list, base |-> <<>>,
                 ret |-> CleanTimestamp(ts_list)]

CallExtractPermalink ==
    /\ call = NoCall
    /\ \E links_ \in SeqsUpTo(LinkRecords, MaxCandidateList),
          page_url \in PageUrls :
        call' = [fn |-> "extract_permalink", arg |-> links_, base |-> page_url,
                 ret |-> ExtractPermalink(links_, page_url)]

\* the caller takes the return value; the next call may start
ReturnResolve ==
    /\ call # NoCall
    /\ call' = NoCall

----------------------------------------------------------------------------
(* SpecDate: parse_facebook_date, is_within_period and the period filter   *)
(* of main().  A timestamp string is a sequence of lexical tokens: a run   *)
(* of digits (with its value), a run of whitespace, a run of letters, or   *)
(* a colon.  A point in time is a number of minutes since 1 January 00:00  *)
(* of the current year together with a sub-minute part.                    *)

Num(n) == [k |-> "num", n |-> n, w |-> ""]
Sp == [k |-> "ws", n |-> 0, w |-> ""]
Word(w) == [k |-> "word", n |-> 0, w |-> w]
Colon == [k |-> "colon", n |-> 0, w |-> ""]

\* str.lower on a run of letters
LowerWord(w) ==
    CASE w = "Apr" -> "apr"
      [] w = "April" -> "april"
      [] w = "Aug" -> "aug"
      [] w = "August" -> "august"
      [] w = "Dec" -> "dec"
      [] w = "December" -> "december"
      [] w = "Feb" -> "feb"
      [] w = "February" -> "february"
      [] w = "Ieri" -> "ieri"
      [] w = "Jan" -> "jan"
      [] w = "January" -> "january"
      [] w = "Jul" -> "jul"
      [] w = "July" -> "july"
      [] w = "Jun" -> "jun"
      [] w = "June" -> "june"
      [] w = "Just" -> "just"
      [] w = "Mar" -> "mar"
      [] w = "March" -> "march"
      [] w = "May" -> "may"
      [] w = "Nov" -> "nov"
      [] w = "November" -> "november"
      [] w = "Oct" -> "oct"
      [] w = "October" -> "october"
      [] w = "Sep" -> "sep"
      [] w = "September" -> "september"
      [] w = "Yesterday" -> "yesterday"
      [] OTHER -> w

LowerTokens(ts) ==
    [i \in 1..Len(ts) |->
        IF ts[i].k = "word" THEN Word(LowerWord(ts[i].w)) ELSE ts[i]]

RECURSIVE StripTokens(_)
StripTokens(ts) ==
    IF ts # <<>> /\ Head(ts).k = "ws" THEN StripTokens(Tail(ts))
    ELSE IF ts # <<>> /\ ts[Len(ts)].k = "ws"
        THEN StripTokens(SubSeq(ts, 1, Len(ts) - 1))
        ELSE ts

\* the lower-case words that begin with the letter a unit pattern ends in:
\* (?:minute|min|m), (?:hour|h), (?:day|d), (?:week|w) followed by an
\* optional "ago" match any run of letters with that first letter
WordsFrom(letter) ==
    CASE letter = "m" -> {"m", "min", "mins", "minute", "minutes", "march",
                          "mar", "may"}
      [] letter = "h" -> {"h", "hr", "hrs", "hour", "hours", "hello"}
      [] letter = "d" -> {"d", "day", "days", "december", "dec"}
      [] letter = "w" -> {"w", "week", "weeks"}

\* positions where (\d+)\s*<letter> matches: a digit run, optional
\* whitespace, then a word beginning with the letter
UnitMatches(ts, letter) ==
    {i \in 1..Len(ts) :
        /\ ts[i].k = "num"
        /\ \/ (i + 1 <= Len(ts) /\ ts[i + 1].k = "word"
               /\ ts[i + 1].w \in WordsFrom(letter))
           \/ (i + 2 <= Len(ts) /\ ts[i + 1].k = "ws" /\ ts[i + 2].k = "word"
               /\ ts[i + 2].w \in WordsFrom(letter))}

\* int(match.group(1)) of re.search: the leftmost match
UnitValue(ts, letter) ==
    ts[CHOOSE i \in UnitMatches(ts, letter) :
           \A j \in UnitMatches(ts, letter) : i <= j].n

MinutesPerDay == 1440

\* minutes in one unit of timedelta(minutes=, hours=, days=, weeks=)
UnitMinutes(unit) ==
    CASE unit = "minutes" -> 1
      [] unit = "hours" -> 60
      [] unit = "days" -> 1440
      [] unit = "weeks" -> 10080

\* days from datetime.min (0001-01-01) to 1 January of the current year
DaysSinceMin == 739616

\* `now - timedelta(<unit>=value)` raises OverflowError when the result
\* would precede datetime.min
Underflows(now, value, unit) ==
    value > ((DaysSinceMin * MinutesPerDay + now.min) \div UnitMinutes(unit))

NoneDate == [k |-> "none", min |-> 0, sub |-> 0]
Raised == [k |-> "raise", min |-> 0, sub |-> 0]
Unset == [k |-> "unset", min |-> 0, sub |-> 0]
At(min, sub) == [k |-> "time", min |-> min, sub |-> sub]

\* now - timedelta(<unit>=value)
Minus(now, value, unit) ==
    IF Underflows(now, value, unit)
        THEN Raised
        ELSE At(now.min - value * UnitMinutes(unit), now.sub)

\* the `for pattern, unit in patterns` loop from the given pattern on
RECURSIVE RelativeScan(_, _, _)
RelativeScan(ts, patterns, now) ==
    IF patterns = <<>>
        THEN Unset
        ELSE IF UnitMatches(ts, Head(patterns)[1]) # {}
            THEN Minus(now, UnitValue(ts, Head(patterns)[1]),
                       Head(patterns)[2])
            ELSE RelativeScan(ts, Tail(patterns), now)

\* the pattern list with the week pattern paired with the unit 'days'
PatternsWeeksAsDays ==
    <<<<"m", "minutes">>, <<"h", "hours">>, <<"d", "days">>,
      <<"w", "days">>>>

Patterns ==
    <<<<"m", "minutes">>, <<"h", "hours">>, <<"d", "days">>,
      <<"w", "weeks">>>>

\* 'yesterday' in ts or 'ieri' in ts
HasYesterday(ts) ==
    \E i \in 1..Len(ts) : ts[i].k = "word" /\ ts[i].w \in {"yesterday", "ieri"}

\* re.sub(r'\s+at\s+\d+:\d+', '', ts)
RECURSIVE RemoveAtTime(_)
RemoveAtTime(ts) ==
    IF Len(ts) < 6
        THEN ts
        ELSE IF /\ ts[1].k = "ws"
                /\ ts[2] = Word("at")
                /\ ts[3].k = "ws"
                /\ ts[4].k = "num"
                /\ ts[5].k = "colon"
                /\ ts[6].k = "num"
            THEN RemoveAtTime(SubSeq(ts, 7, Len(ts)))
            ELSE <<Head(ts)>> \o RemoveAtTime(Tail(ts))

FullMonths == <<"january", "february", "march", "april", "may", "june",
      "july", "august", "september", "october", "november", "december">>

ShortMonths == <<"jan", "feb", "mar", "apr", "may", "jun", "jul", "aug", "sep", "oct", "nov", "dec">>

\* days of each month in 1900, the year strptime assumes
DaysIn == <<31, 28, 31, 30, 31, 30, 31, 31, 30, 31, 30, 31>>

MonthOf(names, w) ==
    IF \E m \in 1..12 : names[m] = w
        THEN CHOOSE m \in 1..12 : names[m] = w
        ELSE 0

\* datetime.strptime(date_part, fmt): <<month, day>>, or <<0, 0>> for
\* ValueError; fmt is <<day first?, month names>>
Strptime(date_part, dayFirst, names) ==
    IF Len(date_part) # 3 \/ date_part[2].k # "ws"
        THEN <<0, 0>>
        ELSE LET d == IF dayFirst THEN date_part[1] ELSE date_part[3]
                 b == IF dayFirst THEN date_part[3] ELSE date_part[1]
                 m == IF b.k = "word" THEN MonthOf(names, b.w) ELSE 0
             IN  IF d.k = "num" /\ m # 0 /\ d.n >= 1 /\ d.n <= DaysIn[m]
                     THEN <<m, d.n>>
                     ELSE <<0, 0>>

\* for fmt in ['%d %B', '%B %d', '%d %b', '%b %d']
Formats ==
    <<<<TRUE, FullMonths>>, <<FALSE, FullMonths>>, <<TRUE, ShortMonths>>,
      <<FALSE, ShortMonths>>>>

\* minutes from 1 January 00:00 to the given day 00:00 of the current year
DayStart(month, day) ==
    LET before == [m \in 1..12 |->
                      IF m < month THEN DaysIn[m] ELSE 0]
        sum == before[1] + before[2] + before[3] + before[4] + before[5]
               + before[6] + before[7] + before[8] + before[9] + before[10]
               + before[11] + before[12]
    IN  (sum + day - 1) * MinutesPerDay

RECURSIVE TryFormats(_, _)
TryFormats(date_part, formats) ==
    IF formats = <<>>
        THEN NoneDate
        ELSE LET parsed_ == Strptime(date_part, Head(formats)[1],
                                     Head(formats)[2])
             IN  IF parsed_ # <<0, 0>>
                     THEN At(DayStart(parsed_[1], parsed_[2]), 0)
                     ELSE TryFormats(date_part, Tail(formats))

\* parse_facebook_date(timestamp_str), reading the clock as `now`
ParseFacebookDate(timestamp_str, now) ==
    IF timestamp_str = <<>>
        THEN NoneDate
        ELSE LET ts == StripTokens(LowerTokens(timestamp_str))
                 relative == RelativeScan(ts, Patterns, now)
             IN  IF relative # Unset
                     THEN relative
                     ELSE IF HasYesterday(ts)
                         THEN Minus(now, 1, "days")
                         ELSE TryFormats(RemoveAtTime(ts), Formats)

\* parsed_date >= cutoff
NotBefore(a, b) == a.min > b.min \/ (a.min = b.min /\ a.sub >= b.sub)

\* is_within_period after the parse that treats an unknown date as outside
PeriodVerdictDropUnknown(parsed_date, days_, now) ==
    IF parsed_date = NoneDate
        THEN "dropped"
        ELSE IF Minus(now, days_, "days") = Raised
            THEN "raised"
            ELSE IF NotBefore(parsed_date, Minus(now, days_, "days"))
                THEN "kept"
                ELSE "dropped"

\* is_within_period after the parse: `if not parsed_date: return True`,
\* then the cutoff from a second reading of the clock
PeriodVerdict(parsed_date, days_, now) ==
    IF parsed_date = NoneDate
        THEN "kept"
        ELSE IF Minus(now, days_, "days") = Raised
            THEN "raised"
            ELSE IF NotBefore(parsed_date, Minus(now, days_, "days"))
                THEN "kept"
                ELSE "dropped"

(* Inputs: timestamp strings with the reading they are meant to have *)

MonthText(m, short) ==
    LET cap == <<"January", "February", "March", "April", "May", "June",
                 "July", "August", "September", "October", "November",
                 "December">>
        capShort == <<"Jan", "Feb", "Mar", "Apr", "May", "Jun", "Jul", "Aug",
                      "Sep", "Oct", "Nov", "Dec">>
    IN  IF short THEN capShort[m] ELSE cap[m]

AtTime == <<Sp, Word("at"), Sp, Num(10), Colon, Num(23)>>

AbsoluteStamps ==
    {[kind |-> "absolute", day |-> d, month |-> m, n |-> 0, unit |-> "",
      text |-> (IF dayFirst
                   THEN <<Num(d), Sp, Word(MonthText(m, short))>>
                   ELSE <<Word(MonthText(m, short)), Sp, Num(d)>>)
               \o (IF at THEN AtTime ELSE <<>>)] :
        d \in StampDays, m \in 1..12, dayFirst \in BOOLEAN,
        short \in BOOLEAN, at \in BOOLEAN}

UnitWords ==
    {<<"m", "minutes">>, <<"min", "minutes">>, <<"minute", "minutes">>,
     <<"minutes", "minutes">>,
     <<"h", "hours">>, <<"hour", "hours">>, <<"hours", "hours">>,
     <<"d", "days">>, <<"day", "days">>, <<"days", "days">>,
     <<"w", "weeks">>, <<"week", "weeks">>, <<"weeks", "weeks">>}

RelativeStamps ==
    {[kind |-> "relative", day |-> 0, month |-> 0, n |-> n, unit |-> u[2],
      text |-> <<Num(n)>> \o (IF spaced THEN <<Sp>> ELSE <<>>)
               \o <<Word(u[1])>>
               \o (IF ago THEN <<Sp, Word("ago")>> ELSE <<>>)] :
        n \in StampNumbers, u \in UnitWords, spaced \in BOOLEAN,
        ago \in BOOLEAN}

OtherStamps ==
    {[kind |-> "yesterday", day |-> 0, month |-> 0, n |-> 1, unit |-> "days",
      text |-> <<Word("Yesterday"), Sp, Word("at"), Sp, Num(15), Colon,
                 Num(30)>>],
     [kind |-> "yesterday", day |-> 0, month |-> 0, n |-> 1, unit |-> "days",
      text |-> <<Word("Ieri")>>],
     [kind |-> "unknown", day |-> 0, month |-> 0, n |-> 0, unit |-> "",
      text |-> <<>>],
     [kind |-> "unknown", day |-> 0, month |-> 0, n |-> 0, unit |-> "",
      text |-> <<Word("Just"), Sp, Word("now")>>],
     [kind |-> "unknown", day |-> 0, month |-> 0, n |-> 0, unit |-> "",
      text |-> <<Num(29), Sp, Word("February")>>],
     [kind |-> "unknown", day |-> 0, month |-> 0, n |-> 0, unit |-> "",
      text |-> <<Word("April"), Sp, Num(31)>>],
     [kind |-> "unknown", day |-> 0, month |-> 0, n |-> 0, unit |-> "",
      text |-> <<Num(2026), Colon, Num(11)>>]}

Stamps == AbsoluteStamps \cup RelativeStamps \cup OtherStamps

NoStamp == [kind |-> "none", day |-> 0, month |-> 0, n |-> 0, unit |-> "",
            text |-> <<>>]

\* the instant the run starts: 5 November 12:00
StartMinute == 444240

\* the clock advances between any two steps
Tick ==
    /\ clock.sub < MaxTicks
    /\ clock' = At(clock.min, clock.sub + 1)
    /\ UNCHANGED <<dpc, rec, days, caller, parsed, verdict>>

\* main(): `if period_days > 0:` the comprehension calls is_within_period
\* for the next post, otherwise the post stays
FilterPost ==
    /\ dpc = "idle"
    /\ \E stamp \in Stamps, period_days \in Windows :
        /\ rec' = stamp
        /\ days' = period_days
        /\ caller' = "main"
        /\ parsed' = Unset
        /\ IF period_days > 0
               THEN dpc' = "parse" /\ verdict' = "pending"
               ELSE dpc' = "done" /\ verdict' = "kept"
    /\ UNCHANGED clock

\* is_within_period(timestamp_str, days) called on its own:
\* `if days == 0: return True`
CallIsWithinPeriod ==
    /\ dpc = "idle"
    /\ \E stamp \in Stamps, d \in Windows :
        /\ rec' = stamp
        /\ days' = d
        /\ caller' = "direct"
        /\ parsed' = Unset
        /\ IF d = 0
               THEN dpc' = "done" /\ verdict' = "kept"
               ELSE dpc' = "parse" /\ verdict' = "pending"
    /\ UNCHANGED clock

\* parsed_date = parse_facebook_date(timestamp_str); an exception leaves
\* is_within_period and main()
Parse ==
    /\ dpc = "parse"
    /\ parsed' = ParseFacebookDate(rec.text, clock)
    /\ IF parsed' = Raised
           THEN dpc' = "aborted" /\ verdict' = "raised"
           ELSE dpc' = "compare" /\ verdict' = verdict
    /\ UNCHANGED <<clock, rec, days, caller>>

\* the rest of is_within_period, with its own reading of the clock
Compare ==
    /\ dpc = "compare"
    /\ verdict' = PeriodVerdict(parsed, days, clock)
    /\ dpc' = IF verdict' = "raised" THEN "aborted" ELSE "done"
    /\ UNCHANGED <<clock, rec, days, caller, parsed>>

\* the call has returned and its locals are gone; the next post may follow
NextPost ==
    /\ dpc = "done"
    /\ dpc' = "idle"
    /\ rec' = NoStamp
    /\ days' = 0
    /\ caller' = "none"
    /\ parsed' = Unset
    /\ verdict' = "pending"
    /\ UNCHANGED clock

----------------------------------------------------------------------------
(* SpecNormalize: normalize and normalize_lower of utils.py (analyzer.py    *)
(* carries the same two functions).  A text is a sequence of characters;   *)
(* each zero-width or bidi-control character is one token named by its     *)
(* code point.                                                             *)

\* for ch in ["\u200b", "\u200e", "\u200f", "\u202a", "\u202b", "\u202c"]
ZeroWidthChars ==
    <<"U+200B", "U+200E", "U+200F", "U+202A", "U+202B", "U+202C">>

\* s.replace(ch, "")
Replace(s, ch) == SelectSeq(s, LAMBDA c : c # ch)

\* the `for ch in [...]: s = s.replace(ch, "")` loop over the given chars
RECURSIVE ReplaceEach(_, _)
ReplaceEach(s, chars) ==
    IF chars = <<>>
        THEN s
        ELSE ReplaceEach(Replace(s, Head(chars)), Tail(chars))

\* length of the leading run of non-whitespace characters
RECURSIVE WordLen(_)
WordLen(s) ==
    IF s = <<>> \/ Head(s) \in WS THEN 0 ELSE 1 + WordLen(Tail(s))

\* s.split(): the maximal runs of non-whitespace characters
RECURSIVE Split(_)
Split(s) ==
    LET t == TrimLeft(s)
    IN  IF t = <<>>
            THEN <<>>
            ELSE <<SubSeq(t, 1, WordLen(t))>>
                 \o Split(SubSeq(t, WordLen(t) + 1, Len(t)))

\* sep.join(words)
RECURSIVE Join(_, _)
Join(sep, words) ==
    IF words = <<>> THEN <<>>
    ELSE IF Len(words) = 1 THEN words[1]
    ELSE words[1] \o sep \o Join(sep, Tail(words))

\* normalize that joins the words without the separating space
NormalizeNoSeparator(s) ==
    IF s = Null \/ s = Empty
        THEN Empty
        ELSE Trim(Join(<<>>, Split(ReplaceEach(s, ZeroWidthChars))))

\* normalize that collapses the whitespace before it removes the characters
NormalizeCollapseFirst(s) ==
    IF s = Null \/ s = Empty
        THEN Empty
        ELSE Trim(ReplaceEach(Join(<<" ">>, Split(s)), ZeroWidthChars))

\* normalize(s)
Normalize(s) ==
    IF s = Null \/ s = Empty
        THEN Empty
        ELSE Trim(Join(<<" ">>, Split(ReplaceEach(s, ZeroWidthChars))))

\* normalize_lower(s)
NormalizeLower(s) == Lower(Normalize(s))

(* Inputs of normalize *)

TextChars == {"a", "B", " ", "\n", "U+200B", "U+202C"}

NormalizeInputs ==
    SeqsUpTo(TextChars, MaxText)
    \cup {Null,
          <<"a", "U+200B", " ", " ", "b">>,
          <<"U+200B", "U+200E", "U+200F", "U+202A", "U+202B", "U+202C">>,
          <<"\t", "A", "U+200E", "\t", "U+200F", "\n", "U+202A", "b", "U+202B",
            " ">>}

CallNormalize ==
    /\ call = NoCall
    /\ \E s \in NormalizeInputs :
        call' = [fn |-> "normalize", arg |-> s, base |-> <<>>,
                 ret |-> Normalize(s)]

CallNormalizeLower ==
    /\ call = NoCall
    /\ \E s \in NormalizeInputs :
        call' = [fn |-> "normalize_lower", arg |-> s, base |-> <<>>,
                 ret |-> NormalizeLower(s)]

----------------------------------------------------------------------------
(* SpecMain: one run of main() of facebook_scraper.py, from the prompts to  *)
(* the cleanup: the connection to the browser, the scroll, the expansion,  *)
(* the extraction, the text filter, adapt_facebook_blocks, the period      *)
(* filter, the grouping of the report.  main() of facebook_scraper_pro.py  *)
(* is the same run with no period filter and no expansion.  Body texts and *)
(* author names are sequences of characters, timestamps sequences of       *)
(* lexical tokens, URLs sequences of URL tokens.                           *)

\* `needle in hay`
IsSubstring(needle, hay) ==
    \E i \in 0..(Len(hay) - Len(needle)) :
        SubSeq(hay, i + 1, i + Len(needle)) = needle

\* length of the leading run of line feeds
RECURSIVE NewlineRun(_)
NewlineRun(s) ==
    IF s = <<>> \/ Head(s) # "\n" THEN 0 ELSE 1 + NewlineRun(Tail(s))

\* re.sub(r"\n{3,}", "\n\n", txt)
RECURSIVE CollapseNewlines(_)
CollapseNewlines(s) ==
    IF s = <<>> THEN <<>>
    ELSE LET run == NewlineRun(s)
         IN  IF run >= 3
                 THEN <<"\n", "\n">>
                      \o CollapseNewlines(SubSeq(s, run + 1, Len(s)))
                 ELSE IF run >= 1
                     THEN SubSeq(s, 1, run)
                          \o CollapseNewlines(SubSeq(s, run + 1, Len(s)))
                     ELSE <<Head(s)>> \o CollapseNewlines(Tail(s))

\* extract_text(raw_text)
ExtractText(raw_text) ==
    IF raw_text = Null \/ raw_text = Empty
        THEN Empty
        ELSE Trim(Replace(Replace(CollapseNewlines(Trim(raw_text)),
                                  "U+200B"), "U+200E"))

\* characters in code point order
CodeOrder ==
    <<"\t", "\n", " ",
      "A", "B", "C", "D", "E", "F", "G", "H", "I", "J", "K", "L", "M", "N",
      "O", "P", "Q", "R", "S", "T", "U", "V", "W", "X", "Y", "Z",
      "a", "b", "c", "d", "e", "f", "g", "h", "i", "j", "k", "l", "m", "n",
      "o", "p", "q", "r", "s", "t", "u", "v", "w", "x", "y", "z",
      "U+200B", "U+200E", "U+200F", "U+202A", "U+202B", "U+202C">>

CodePoint(c) == CHOOSE i \in 1..Len(CodeOrder) : CodeOrder[i] = c

\* a < b for str
RECURSIVE StrLess(_, _)
StrLess(a, b) ==
    IF b = <<>> THEN FALSE
    ELSE IF a = <<>> THEN TRUE
    ELSE IF Head(a) = Head(b) THEN StrLess(Tail(a), Tail(b))
    ELSE CodePoint(Head(a)) < CodePoint(Head(b))

\* a sort that is not stable: x is placed before the elements of equal key
InsertByKeyUnstable(sorted, x) ==
    LET k == Cardinality({i \in 1..Len(sorted) :
                             StrLess(sorted[i].key, x.key)})
    IN  SubSeq(sorted, 1, k) \o <<x>> \o SubSeq(sorted, k + 1, Len(sorted))

\* list.sort / sorted with a key: x is placed after every element whose key
\* is not greater than its own
InsertByKey(sorted, x) ==
    LET k == Cardinality({i \in 1..Len(sorted) :
                             ~StrLess(x.key, sorted[i].key)})
    IN  SubSeq(sorted, 1, k) \o <<x>> \o SubSeq(sorted, k + 1, Len(sorted))

RECURSIVE SortedByKey(_, _)
SortedByKey(sorted, rest) ==
    IF rest = <<>>
        THEN sorted
        ELSE SortedByKey(InsertByKey(sorted, Head(rest)), Tail(rest))

\* the `for im in b.get("images")` loop of adapt_facebook_blocks
RECURSIVE AdaptImages(_)
AdaptImages(imgs) ==
    IF imgs = <<>> THEN <<>>
    ELSE LET src == Or(Head(imgs).src, Empty)
         IN  (IF src # Empty THEN <<src>> ELSE <<>>)
             \o AdaptImages(Tail(imgs))

\* the `for lk in b.get("links")` loop of adapt_facebook_blocks
AdaptLinks(lks, page_url) ==
    [i \in 1..Len(lks) |->
        LET abs_href == Urljoin(page_url, Or(lks[i].href, Empty))
        IN  [href |-> abs_href, text |-> Or(lks[i].text, abs_href)]]

\* the body of the `for b in blocks` loop of adapt_facebook_blocks
AdaptBlock(b, page_url) ==
    [post_index |-> b.index,
     author |-> CleanAuthor(b.authorCandidates),
     text |-> ExtractText(b.text),
     timestamp |-> CleanTimestamp(b.timestampCandidates),
     permalink |-> ExtractPermalink(b.links, page_url),
     images |-> AdaptImages(b.images),
     links |-> AdaptLinks(b.links, page_url),
     raw_block |-> b]

\* adapt_facebook_blocks(blocks, page_url), its closing sort included
AdaptFacebookBlocks(blocks, page_url) ==
    LET structured == [i \in 1..Len(blocks) |->
                          AdaptBlock(blocks[i], page_url)]
        sorted == SortedByKey(<<>>,
                      [i \in 1..Len(structured) |->
                          [key |-> Lower(structured[i].author),
                           val |-> structured[i]]])
    IN  [i \in 1..Len(sorted) |-> sorted[i].val]

\* an adapt_facebook_blocks that sorts the list it is handed
AdaptCallSortsInput(blocks, page_url) ==
    LET sorted == SortedByKey(<<>>,
                      [i \in 1..Len(blocks) |->
                          [key |-> Lower(CleanAuthor(
                                       blocks[i].authorCandidates)),
                           val |-> blocks[i]]])
    IN  [blocks |-> [i \in 1..Len(sorted) |-> sorted[i].val],
         structured |-> AdaptFacebookBlocks(blocks, page_url)]

\* one call of adapt_facebook_blocks: the argument list after the call and
\* the list returned.  The function reads `blocks` and every b, appends to
\* its own `structured` and sorts that
AdaptCall(blocks, page_url) ==
    [blocks |-> blocks,
     structured |-> AdaptFacebookBlocks(blocks, page_url)]

\* `filter_text in (b.get("text") or "").lower()`
TextMatches(b, filter_text) ==
    IsSubstring(filter_text, Lower(Or(b.text, Empty)))

\* main(): `if filter_text: raw_blocks = [b for b in raw_blocks if ...]`
TextFilter(blocks, filter_text) ==
    IF filter_text # Empty
        THEN SelectSeq(blocks, LAMBDA b : TextMatches(b, filter_text))
        ELSE blocks

\* a comprehension that keeps the posts for which the call returned False
RECURSIVE PeriodKeptInverted(_, _)
PeriodKeptInverted(posts, outcomes) ==
    IF posts = <<>> THEN <<>>
    ELSE (IF Head(outcomes) # "kept" THEN <<Head(posts)>> ELSE <<>>)
         \o PeriodKeptInverted(Tail(posts), Tail(outcomes))

\* the posts for which is_within_period returned True
RECURSIVE PeriodKept(_, _)
PeriodKept(posts, outcomes) ==
    IF posts = <<>> THEN <<>>
    ELSE (IF Head(outcomes) = "kept" THEN <<Head(posts)>> ELSE <<>>)
         \o PeriodKept(Tail(posts), Tail(outcomes))

\* srcset.split(",")
RECURSIVE SplitOnComma(_, _)
SplitOnComma(piece, rest) ==
    IF rest = <<>> THEN <<piece>>
    ELSE IF Head(rest) = ","
        THEN <<piece>> \o SplitOnComma(<<>>, Tail(rest))
        ELSE SplitOnComma(Append(piece, Head(rest)), Tail(rest))

\* analyzer.py: `parts = [p.split()[0] for p in srcset.split(",")
\* if p.strip()]`
SrcsetParts(srcset) ==
    LET pieces == SelectSeq(SplitOnComma(<<>>, srcset),
                            LAMBDA piece : Trim(piece) # <<>>)
    IN  [i \in 1..Len(pieces) |-> Split(pieces[i])[1]]

\* `a = p.get("author") or "Unknown Author"`
GroupKey(p) == Or(p.author, UnknownAuthor)

\* keys of `groups` in insertion order
RECURSIVE GroupKeys(_, _)
GroupKeys(keys, posts) ==
    IF posts = <<>> THEN keys
    ELSE GroupKeys(IF Includes(keys, GroupKey(Head(posts)))
                       THEN keys
                       ELSE Append(keys, GroupKey(Head(posts))),
                   Tail(posts))

\* the grouping with the authors sorted without lowercasing
GroupsCaseSensitive(posts) ==
    LET keys == GroupKeys(<<>>, posts)
        sorted_authors == SortedByKey(<<>>,
                              [i \in 1..Len(keys) |->
                                  [key |-> keys[i], val |-> keys[i]]])
    IN  [i \in 1..Len(sorted_authors) |->
            [author |-> sorted_authors[i].val,
             posts |-> SelectSeq(posts,
                           LAMBDA p : GroupKey(p) = sorted_authors[i].val)]]

\* the author groups of the report, in the order of sorted_authors
Groups(posts) ==
    LET keys == GroupKeys(<<>>, posts)
        sorted_authors == SortedByKey(<<>>,
                              [i \in 1..Len(keys) |->
                                  [key |-> Lower(keys[i]), val |-> keys[i]]])
    IN  [i \in 1..Len(sorted_authors) |->
            [author |-> sorted_authors[i].val,
             posts |-> SelectSeq(posts,
                           LAMBDA p : GroupKey(p) = sorted_authors[i].val)]]

(* Inputs of a run: what the operator types and what the page holds *)

JaneDoe == <<"J", "a", "n", "e", " ", "D", "o", "e">>

\* DOM candidates as extract_raw_blocks returns them, before `index`
BlockShapes ==
    {[text |-> <<"a", "b">>,
      authorCandidates |-> <<JaneDoe>>,
      timestampCandidates |-> <<<<Num(1), Sp, Word("h")>>>>,
      links |-> <<[href |-> <<"/", "a">>, text |-> <<"t">>]>>,
      images |-> <<[src |-> <<"/", "img", "/", "a.png">>, srcset |-> Empty,
                    alt |-> Empty]>>],
     [text |-> <<"a", "U+200B", "b">>,
      authorCandidates |-> <<JaneDoe>>,
      timestampCandidates |-> <<<<Num(10), Sp, Word("d")>>>>,
      links |-> <<>>,
      images |-> <<[src |-> Empty,
                    srcset |-> <<"a.jpg", " ", "1x", ",", " ", "b.jpg", " ",
                                 "2x">>,
                    alt |-> <<"t">>]>>],
     [text |-> <<"A", " ", " ", "U+200F", "B">>,
      authorCandidates |-> <<>>,
      timestampCandidates |-> <<>>,
      links |-> <<>>,
      images |-> <<>>],
     [text |-> <<"x", "A", "B">>,
      authorCandidates |-> <<<<"R", "e", "p", "l", "y">>, <<"a", "l">>>>,
      timestampCandidates |-> <<<<Num(10), Sp, Word("days"), Sp,
                                 Word("ago")>>>>,
      links |-> <<[href |-> <<"https://cdn.example", "/", "permalink.php">>,
                   text |-> Empty]>>,
      images |-> <<[src |-> <<"https://cdn.example", "/", "b.png">>,
                    srcset |-> Empty, alt |-> Empty]>>],
     [text |-> <<"b", "\n", "\n", "\n", "a">>,
      authorCandidates |-> <<<<"B", "o", "b">>>>,
      timestampCandidates |-> <<<<Num(1000000), Sp, Word("d")>>>>,
      links |-> <<>>,
      images |-> <<>>]}

\* blocks.push({index: index++, ...}): the candidates numbered from 1
Indexed(shapes) ==
    [i \in 1..Len(shapes) |->
        [index |-> i,
         text |-> shapes[i].text,
         authorCandidates |-> shapes[i].authorCandidates,
         timestampCandidates |-> shapes[i].timestampCandidates,
         links |-> shapes[i].links,
         images |-> shapes[i].images]]

Pages ==
    {[url |-> <<"https://site.example", "/", "groups", "/", "g">>,
      blocks |-> Indexed(shapes)] : shapes \in SeqsUpTo(BlockShapes, MaxBlocks)}

NoPage == [url |-> <<>>, blocks |-> <<>>]

\* what the operator types at the period and the text prompts
PeriodInputs == {<<>>, <<Num(0)>>, <<Num(7)>>, <<Num(30)>>, <<Word("week")>>}

FilterInputs == {<<>>, <<" ">>, <<"a", "b">>, <<" ", "A", "B", " ">>}

\* `int(period_input) if period_input.isdigit() else 0`
PeriodDays(period_input) ==
    IF Len(period_input) = 1 /\ period_input[1].k = "num"
        THEN period_input[1].n
        ELSE 0

NoInputs ==
    [period_days |-> 0, filter_text |-> <<>>, do_scroll |-> FALSE,
     scroll_steps |-> 0, do_expand |-> FALSE]

Count(log_, what) == Cardinality({i \in 1..Len(log_) : log_[i] = what})

\* the prompts of main(), up to async_playwright().start()
ReadInputs ==
    /\ mpc = "inputs"
    /\ \E period_input \in PeriodInputs, typed \in FilterInputs,
          auto_s \in BOOLEAN, expand_input \in BOOLEAN :
        opts' = [period_days |-> PeriodDays(period_input),
                 filter_text |-> Lower(Trim(typed)),
                 do_scroll |-> auto_s,
                 scroll_steps |-> IF auto_s THEN MaxScroll ELSE 10,
                 do_expand |-> expand_input]
    /\ playwright' = "started"
    /\ mpc' = "connect"
    /\ UNCHANGED <<browser, page, log, raw_blocks, adapted, results, report,
                   clock, extracted, returned>>

\* a connection step that goes on to the page steps when the call raises
ConnectOverCdpGoesOn ==
    /\ mpc = "connect"
    /\ \E reachable \in BOOLEAN :
        IF reachable
            THEN browser' = "connected" /\ mpc' = "contexts"
            ELSE browser' = browser /\ mpc' = "scroll"
    /\ UNCHANGED <<opts, playwright, page, log, raw_blocks, adapted, results,
                   report, clock, extracted, returned>>

\* connect_over_cdp: the browser is reachable or the call raises and main()
\* returns
ConnectOverCdp ==
    /\ mpc = "connect"
    /\ \E reachable \in BOOLEAN :
        IF reachable
            THEN browser' = "connected" /\ mpc' = "contexts"
            ELSE browser' = browser /\ mpc' = "returned"
    /\ UNCHANGED <<opts, playwright, page, log, raw_blocks, adapted, results,
                   report, clock, extracted, returned>>

\* `if not browser.contexts: return`
CheckContexts ==
    /\ mpc = "contexts"
    /\ \E contexts \in 0..1 :
        mpc' = IF contexts = 0 THEN "returned" ELSE "page"
    /\ UNCHANGED <<opts, playwright, browser, page, log, raw_blocks, adapted,
                   results, report, clock, extracted, returned>>

\* `page = ctx.pages[0]`: IndexError when the context has no page
AttachPage ==
    /\ mpc = "page"
    /\ \/ /\ mpc' = "crashed"
          /\ page' = page
       \/ /\ \E pg \in Pages : page' = pg
          /\ mpc' = "scroll"
    /\ UNCHANGED <<opts, playwright, browser, log, raw_blocks, adapted,
                   results, report, clock, extracted, returned>>

\* one iteration of `for i in range(scroll_steps)`
ScrollStep ==
    /\ mpc = "scroll"
    /\ opts.do_scroll
    /\ Count(log, "scroll") < opts.scroll_steps
    /\ log' = Append(log, "scroll")
    /\ UNCHANGED <<mpc, opts, playwright, browser, page, raw_blocks, adapted,
                   results, report, clock, extracted, returned>>

\* `if do_expand: await expand_all_comments(...)`, entered when the scroll
\* is over or was not asked for
ExpandAllComments ==
    /\ mpc = "scroll"
    /\ ~opts.do_scroll \/ Count(log, "scroll") >= opts.scroll_steps
    /\ log' = IF opts.do_expand THEN Append(log, "expand") ELSE log
    /\ mpc' = "extract"
    /\ UNCHANGED <<opts, playwright, browser, page, raw_blocks, adapted,
                   results, report, clock, extracted, returned>>

\* raw_blocks = await extract_raw_blocks(page)
ExtractRawBlocks ==
    /\ mpc = "extract"
    /\ raw_blocks' = page.blocks
    /\ extracted' = page.blocks
    /\ log' = Append(log, "extract")
    /\ mpc' = "filter"
    /\ UNCHANGED <<opts, playwright, browser, page, adapted, results, report,
                   clock, returned>>

\* the text filter binds raw_blocks to a new list; adapt_facebook_blocks
\* is handed that list and returns `structured`
FilterAndAdapt ==
    /\ mpc = "filter"
    /\ LET call_ == AdaptCall(TextFilter(raw_blocks, opts.filter_text),
                              page.url)
       IN  /\ raw_blocks' = call_.blocks
           /\ adapted' = call_.structured
           /\ returned' = call_.structured
    /\ mpc' = IF opts.period_days > 0 THEN "period" ELSE "report"
    /\ UNCHANGED <<opts, playwright, browser, page, log, results, report,
                   clock, extracted>>

\* the period comprehension calls is_within_period for the next post; the
\* call reads the clock in parse_facebook_date and again for the cutoff
PeriodFilterPost ==
    /\ mpc = "period"
    /\ Len(results) < Len(adapted)
    /\ \E later \in {clock.sub, clock.sub + 1} \cap (0..MaxTicks) :
        LET p == adapted[Len(results) + 1]
            parsed_date == ParseFacebookDate(Or(p.timestamp, Empty), clock)
            result == IF parsed_date = Raised
                          THEN "raised"
                          ELSE PeriodVerdict(parsed_date, opts.period_days,
                                             At(clock.min, later))
        IN  /\ results' = Append(results, result)
            /\ mpc' = IF result = "raised" THEN "crashed" ELSE mpc
            /\ clock' = IF parsed_date \in {Raised, NoneDate}
                            THEN clock
                            ELSE At(clock.min, later)
    /\ UNCHANGED <<opts, playwright, browser, page, log, raw_blocks, adapted,
                   report, extracted, returned>>

\* the comprehension is over: `adapted = [p for p in adapted if ...]`
PeriodFilterDone ==
    /\ mpc = "period"
    /\ Len(results) = Len(adapted)
    /\ adapted' = PeriodKept(adapted, results)
    /\ mpc' = "report"
    /\ UNCHANGED <<opts, playwright, browser, page, log, raw_blocks, results,
                   report, clock, extracted, returned>>

\* generate_deep_html_report(adapted, ...): the groups written to out_path
GenerateReport ==
    /\ mpc = "report"
    /\ report' = Groups(adapted)
    /\ log' = Append(log, "report")
    /\ mpc' = "cleanup"
    /\ UNCHANGED <<opts, playwright, browser, page, raw_blocks, adapted,
                   results, clock, extracted, returned>>

\* browser.close() and playwright.stop()
Cleanup ==
    /\ mpc = "cleanup"
    /\ browser' = "closed"
    /\ playwright' = "stopped"
    /\ mpc' = "exit"
    /\ UNCHANGED <<opts, page, log, raw_blocks, adapted, results, report,
                   clock, extracted, returned>>

----------------------------------------------------------------------------
(* The specifications; each leaves the other machines at rest *)

----------------------------------------------------------------------------
(* SpecSelect: the candidate selection of EXTRACT_JS.  A document is a   *)
(* number of elements of each shape, in the document order of Shapes; an   *)
(* element is its shape and its rank among the elements of that shape.     *)

\* element shapes: tag, whether a signature selector matches, the class
\* attribute, and whether the element is inside <main>
Shapes ==
    <<[tag |-> "article", signature |-> TRUE,  className |-> Empty,
       inMain |-> TRUE],
      [tag |-> "div",     signature |-> TRUE,  className |-> <<"card">>,
       inMain |-> TRUE],
      [tag |-> "div",     signature |-> FALSE, className |-> <<"card">>,
       inMain |-> TRUE],
      [tag |-> "div",     signature |-> FALSE, className |-> Empty,
       inMain |-> TRUE],
      [tag |-> "span",    signature |-> FALSE, className |-> <<"card">>,
       inMain |-> TRUE],
      [tag |-> "div",     signature |-> FALSE, className |-> <<"bar">>,
       inMain |-> FALSE]>>

\* how many elements of each shape a document may hold
ShapeCounts ==
    <<{0, 4, 5}, {0, 1, 4, 5}, {0, 1, 4, MaxRun}, {0, 1}, {0, 4}, {0, 4, 5}>>

Documents ==
    {[hasMain |-> m, count |-> c] :
        m \in BOOLEAN,
        c \in ShapeCounts[1] \X ShapeCounts[2] \X ShapeCounts[3]
                \X ShapeCounts[4] \X ShapeCounts[5] \X ShapeCounts[6]}

NoDocument == [hasMain |-> FALSE, count |-> [i \in 1..Len(Shapes) |-> 0]]

\* the elements of a document from its shape number `from` on, in document
\* order
RECURSIVE ElementsFrom(_, _)
ElementsFrom(d, from) ==
    IF from > Len(Shapes) THEN <<>>
    ELSE [k \in 1..d.count[from] |-> [shape |-> from, rank |-> k]]
         \o ElementsFrom(d, from + 1)

Elements(d) == ElementsFrom(d, 1)

\* document.querySelector("main") || document.body
InRoot(d, el) == d.hasMain => Shapes[el.shape].inMain

\* document.querySelectorAll("article, div[role='article'], ...")
SignatureQuery(d) ==
    SelectSeq(Elements(d), LAMBDA el : Shapes[el.shape].signature)

\* root.querySelectorAll("div")
RootDivs(d) ==
    SelectSeq(Elements(d),
              LAMBDA el : Shapes[el.shape].tag = "div" /\ InRoot(d, el))

\* classMap[cls] once the first loop over divs is over
ClassMap(divs, cls) ==
    Cardinality({i \in 1..Len(divs) : Shapes[divs[i].shape].className = cls})

\* Object.entries(classMap).filter(([cls, count]) => count >= 5)
Frequent(divs) ==
    {cls \in {Shapes[divs[i].shape].className : i \in 1..Len(divs)} \ {Empty} :
        ClassMap(divs, cls) >= FrequentFrom}

\* the second loop over divs
ExtraOf(divs) ==
    LET frequent == Frequent(divs)
    IN  SelectSeq(divs, LAMBDA el :
            /\ Shapes[el.shape].className # Empty
            /\ Shapes[el.shape].className \in frequent)

\* s.slice(0, n)
Slice(s, n) == SubSeq(s, 1, IF Len(s) < n THEN Len(s) ELSE n)

\* an Array.from that keeps every occurrence
ArrayFromList(s) == s

\* Array.from(new Set(s)): the first occurrence of every element, in order
ArrayFromSet(s) ==
    LET first == {i \in 1..Len(s) : \A j \in 1..(i - 1) : s[j] # s[i]}
        keep == [i \in 1..Len(s) |-> [at |-> i, el |-> s[i]]]
        kept == SelectSeq(keep, LAMBDA x : x.at \in first)
    IN  [i \in 1..Len(kept) |-> kept[i].el]

\* the test with an off-by-one threshold
FallbackNeededUpTo(n) == n <= FallbackBelow

\* if (candidates.length < 5)
FallbackNeeded(n) == n < FallbackBelow

\* let candidates = Array.from(document.querySelectorAll(...))
QuerySignatures ==
    /\ spc = "idle"
    /\ dom' \in Documents
    /\ candidates' = SignatureQuery(dom')
    /\ spc' = "fallback"
    /\ UNCHANGED <<extra, fallback, yielded>>

\* if (candidates.length < 5) { ... candidates.concat(extra.slice(0, 200)) }
FallbackTest ==
    /\ spc = "fallback"
    /\ IF FallbackNeeded(Len(candidates))
          THEN /\ extra' = Slice(ExtraOf(RootDivs(dom)), ExtraCap)
               /\ candidates' = candidates \o extra'
               /\ fallback' = TRUE
          ELSE UNCHANGED <<extra, candidates, fallback>>
    /\ spc' = "dedupe"
    /\ UNCHANGED <<dom, yielded>>

\* candidates = Array.from(new Set(candidates)); const blocks = []
Deduplicate ==
    /\ spc = "dedupe"
    /\ candidates' = ArrayFromSet(candidates)
    /\ spc' = "loop"
    /\ UNCHANGED <<dom, extra, fallback, yielded>>

\* for (const el of candidates) { index += 1; ... blocks.push({index, ...}) }
PushCandidate ==
    /\ spc = "loop"
    /\ Len(yielded) < Len(candidates)
    /\ yielded' = Append(yielded, [index |-> Len(yielded) + 1,
                                 el |-> candidates[Len(yielded) + 1]])
    /\ UNCHANGED <<spc, dom, candidates, extra, fallback>>

\* return blocks
ReturnBlocks ==
    /\ spc = "loop"
    /\ Len(yielded) = Len(candidates)
    /\ spc' = "done"
    /\ UNCHANGED <<dom, candidates, extra, fallback, yielded>>

----------------------------------------------------------------------------
(* SpecExpand: expand_all_comments of facebook_scraper.py, one browser     *)
(* call per step.  The page decides what every query, visibility test and  *)
(* click gives; the waits and the scroll return.                           *)

\* the click budgets main() passes: none, one, and a large one
Budgets == {0, 1, MaxBudget}

\* what query_selector_all returns: the selectors that match anything on
\* the page are its first MaxLive; a match is one button or a screenful
Offers(sel) == IF sel <= MaxLive THEN {0, 1, MaxButtons} ELSE {0}

\* buttons[:5]
Sliced(n) == IF n > ButtonCap THEN ButtonCap ELSE n

\* expand_all_comments(page, max_clicks): clicks_made = 0; iteration = 0
CallExpandAllComments ==
    /\ epc = "idle"
    /\ max_clicks' \in Budgets
    /\ clicks_made' = 0
    /\ iteration' = 0
    /\ epc' = "while"
    /\ UNCHANGED <<found_any, selector, offered, tried, last>>

\* while clicks_made < max_clicks and iteration < 50:
\*     iteration += 1; found_any = False; for selector in selectors:
WhileTest ==
    /\ epc = "while"
    /\ IF clicks_made < max_clicks /\ iteration < PassCap
          THEN /\ iteration' = iteration + 1
               /\ found_any' = FALSE
               /\ selector' = 1
               /\ epc' = "query"
          ELSE /\ epc' = "done"
               /\ UNCHANGED <<iteration, found_any, selector>>
    /\ UNCHANGED <<max_clicks, clicks_made, offered, tried, last>>

\* buttons = await page.query_selector_all(selector), or
\* except Exception: continue
QuerySelectorAll ==
    /\ epc = "query"
    /\ selector <= NumSelectors
    /\ \/ /\ last' = "query_failed"
          /\ selector' = selector + 1
          /\ UNCHANGED <<epc, offered, tried>>
       \/ /\ offered' \in Offers(selector)
          /\ tried' = 0
          /\ last' = "query"
          /\ epc' = "button"
          /\ UNCHANGED selector
    /\ UNCHANGED <<max_clicks, clicks_made, iteration, found_any>>

\* the inner loop that tries every button the query returned
NextButtonUnsliced ==
    /\ epc = "button"
    /\ IF tried < offered
          THEN /\ tried' = tried + 1
               /\ \/ /\ last' \in {"is_visible", "is_visible_failed",
                                   "click_failed"}
                     /\ UNCHANGED <<epc, clicks_made, found_any>>
                  \/ /\ last' = "click"
                     /\ clicks_made' = clicks_made + 1
                     /\ found_any' = TRUE
                     /\ epc' = "settle"
               /\ UNCHANGED selector
          ELSE /\ selector' = selector + 1
               /\ epc' = "query"
               /\ UNCHANGED <<tried, last, clicks_made, found_any>>
    /\ UNCHANGED <<max_clicks, iteration, offered>>

\* the inner loop that counts a click once it is issued, failed or not
NextButtonCountsFailures ==
    /\ epc = "button"
    /\ IF tried < Sliced(offered)
          THEN /\ tried' = tried + 1
               /\ \/ /\ last' \in {"is_visible", "is_visible_failed"}
                     /\ UNCHANGED <<epc, clicks_made, found_any>>
                  \/ /\ last' = "click_failed"
                     /\ clicks_made' = clicks_made + 1
                     /\ UNCHANGED <<epc, found_any>>
                  \/ /\ last' = "click"
                     /\ clicks_made' = clicks_made + 1
                     /\ found_any' = TRUE
                     /\ epc' = "settle"
               /\ UNCHANGED selector
          ELSE /\ selector' = selector + 1
               /\ epc' = "query"
               /\ UNCHANGED <<tried, last, clicks_made, found_any>>
    /\ UNCHANGED <<max_clicks, iteration, offered>>

\* for button in buttons[:5]: is_visible = await button.is_visible();
\* if not is_visible: continue; await button.click(timeout=...);
\* clicks_made += 1; found_any = True, or except: continue
NextButton ==
    /\ epc = "button"
    /\ IF tried < Sliced(offered)
          THEN /\ tried' = tried + 1
               /\ \/ /\ last' \in {"is_visible", "is_visible_failed",
                                   "click_failed"}
                     /\ UNCHANGED <<epc, clicks_made, found_any>>
                  \/ /\ last' = "click"
                     /\ clicks_made' = clicks_made + 1
                     /\ found_any' = TRUE
                     /\ epc' = "settle"
               /\ UNCHANGED selector
          ELSE /\ selector' = selector + 1
               /\ epc' = "query"
               /\ UNCHANGED <<tried, last, clicks_made, found_any>>
    /\ UNCHANGED <<max_clicks, iteration, offered>>

\* a successful click that is not followed by its settle delay
SettleSkipped ==
    /\ epc = "settle"
    /\ epc' = "button"
    /\ UNCHANGED <<max_clicks, clicks_made, iteration, found_any, selector,
                   offered, tried, last>>

\* await page.wait_for_timeout(1500)
Settle ==
    /\ epc = "settle"
    /\ last' = "wait_1500"
    /\ epc' = "button"
    /\ UNCHANGED <<max_clicks, clicks_made, iteration, found_any, selector,
                   offered, tried>>

\* if not found_any: break; await page.evaluate("window.scrollBy(0, 500);")
PassEnd ==
    /\ epc = "query"
    /\ selector > NumSelectors
    /\ IF found_any
          THEN /\ last' = "scroll"
               /\ epc' = "scrolled"
          ELSE /\ epc' = "done"
               /\ UNCHANGED last
    /\ UNCHANGED <<max_clicks, clicks_made, iteration, found_any, selector,
                   offered, tried>>

\* await page.wait_for_timeout(1000)
ScrollWait ==
    /\ epc = "scrolled"
    /\ last' = "wait_1000"
    /\ epc' = "while"
    /\ UNCHANGED <<max_clicks, clicks_made, iteration, found_any, selector,
                   offered, tried>>

----------------------------------------------------------------------------
\* the state before the extractor, a resolver or the period filter runs
Init ==
    /\ pc = "next"
    /\ index = 0
    /\ rich = "attrs"
    /\ scan = <<>>
    /\ dataAttrs = <<>>
    /\ authors = <<>>
    /\ timestamps = <<>>
    /\ links = <<>>
    /\ images = <<>>
    /\ pushed = NoBlock
    /\ fullText = Empty
    /\ thrown = {}
    /\ call = NoCall
    /\ dpc = "idle"
    /\ clock = At(StartMinute, 0)
    /\ rec = NoStamp
    /\ days = 0
    /\ caller = "none"
    /\ parsed = Unset
    /\ verdict = "pending"
    /\ mpc = "inputs"
    /\ opts = NoInputs
    /\ playwright = "none"
    /\ browser = "none"
    /\ page = NoPage
    /\ log = <<>>
    /\ raw_blocks = <<>>
    /\ adapted = <<>>
    /\ results = <<>>
    /\ report = <<>>
    /\ extracted = <<>>
    /\ returned = <<>>
    /\ epc = "idle"
    /\ max_clicks = 0
    /\ clicks_made = 0
    /\ iteration = 0
    /\ found_any = FALSE
    /\ selector = 0
    /\ offered = 0
    /\ tried = 0
    /\ last = "none"
    /\ spc = "idle"
    /\ dom = NoDocument
    /\ candidates = <<>>
    /\ extra = <<>>
    /\ fallback = FALSE
    /\ yielded = <<>>

NextExtract ==
    \/ NextCandidate /\ UNCHANGED <<call, dateVars, mainVars, expandVars, selectVars>>
    \/ AttrStep /\ UNCHANGED <<call, dateVars, mainVars, expandVars, selectVars>>
    \/ AttrDone /\ UNCHANGED <<call, dateVars, mainVars, expandVars, selectVars>>
    \/ TextStep /\ UNCHANGED <<call, dateVars, mainVars, expandVars, selectVars>>
    \/ AuthorStep /\ UNCHANGED <<call, dateVars, mainVars, expandVars, selectVars>>
    \/ AuthorDone /\ UNCHANGED <<call, dateVars, mainVars, expandVars, selectVars>>
    \/ TimestampStep /\ UNCHANGED <<call, dateVars, mainVars, expandVars, selectVars>>
    \/ TimestampDone /\ UNCHANGED <<call, dateVars, mainVars, expandVars, selectVars>>
    \/ LinkStep /\ UNCHANGED <<call, dateVars, mainVars, expandVars, selectVars>>
    \/ LinkDone /\ UNCHANGED <<call, dateVars, mainVars, expandVars, selectVars>>
    \/ ImageStep /\ UNCHANGED <<call, dateVars, mainVars, expandVars, selectVars>>
    \/ ImageDone /\ UNCHANGED <<call, dateVars, mainVars, expandVars, selectVars>>
    \/ PushBlock /\ UNCHANGED <<call, dateVars, mainVars, expandVars, selectVars>>

SpecExtract == Init /\ [][NextExtract]_vars

NextHarvest ==
    \/ NextEvenCandidate /\ UNCHANGED <<call, dateVars, mainVars, expandVars, selectVars>>
    \/ AttrStep /\ UNCHANGED <<call, dateVars, mainVars, expandVars, selectVars>>
    \/ AttrDone /\ UNCHANGED <<call, dateVars, mainVars, expandVars, selectVars>>
    \/ TextStep /\ UNCHANGED <<call, dateVars, mainVars, expandVars, selectVars>>
    \/ HarvestThrow /\ UNCHANGED <<call, dateVars, mainVars, expandVars, selectVars>>
    \/ AuthorStep /\ UNCHANGED <<call, dateVars, mainVars, expandVars, selectVars>>
    \/ AuthorDone /\ UNCHANGED <<call, dateVars, mainVars, expandVars, selectVars>>
    \/ TimestampStep /\ UNCHANGED <<call, dateVars, mainVars, expandVars, selectVars>>
    \/ TimestampDone /\ UNCHANGED <<call, dateVars, mainVars, expandVars, selectVars>>
    \/ LinkStep /\ UNCHANGED <<call, dateVars, mainVars, expandVars, selectVars>>
    \/ LinkDone /\ UNCHANGED <<call, dateVars, mainVars, expandVars, selectVars>>
    \/ ImageStep /\ UNCHANGED <<call, dateVars, mainVars, expandVars, selectVars>>
    \/ ImageDone /\ UNCHANGED <<call, dateVars, mainVars, expandVars, selectVars>>
    \/ PushBlock /\ UNCHANGED <<call, dateVars, mainVars, expandVars, selectVars>>

SpecHarvest == Init /\ [][NextHarvest]_vars

NextExpand ==
    \/ CallExpandAllComments /\ UNCHANGED <<extractVars, call, dateVars, mainVars, selectVars>>
    \/ WhileTest /\ UNCHANGED <<extractVars, call, dateVars, mainVars, selectVars>>
    \/ QuerySelectorAll /\ UNCHANGED <<extractVars, call, dateVars, mainVars, selectVars>>
    \/ NextButton /\ UNCHANGED <<extractVars, call, dateVars, mainVars, selectVars>>
    \/ Settle /\ UNCHANGED <<extractVars, call, dateVars, mainVars, selectVars>>
    \/ PassEnd /\ UNCHANGED <<extractVars, call, dateVars, mainVars, selectVars>>
    \/ ScrollWait /\ UNCHANGED <<extractVars, call, dateVars, mainVars, selectVars>>

SpecExpand == Init /\ [][NextExpand]_vars

\* every browser call returns, so the coroutine always takes its next step
FairSpecExpand == Init /\ [][NextExpand]_vars /\ WF_vars(NextExpand)

NextSelect ==
    \/ QuerySignatures /\ UNCHANGED <<extractVars, call, dateVars, mainVars, expandVars>>
    \/ FallbackTest /\ UNCHANGED <<extractVars, call, dateVars, mainVars, expandVars>>
    \/ Deduplicate /\ UNCHANGED <<extractVars, call, dateVars, mainVars, expandVars>>
    \/ PushCandidate /\ UNCHANGED <<extractVars, call, dateVars, mainVars, expandVars>>
    \/ ReturnBlocks /\ UNCHANGED <<extractVars, call, dateVars, mainVars, expandVars>>

SpecSelect == Init /\ [][NextSelect]_vars

NextResolve ==
    \/ ReturnResolve /\ UNCHANGED <<extractVars, dateVars, mainVars, expandVars, selectVars>>
    \/ CallCleanAuthor /\ UNCHANGED <<extractVars, dateVars, mainVars, expandVars, selectVars>>
    \/ CallCleanTimestamp /\ UNCHANGED <<extractVars, dateVars, mainVars, expandVars, selectVars>>
    \/ CallExtractPermalink /\ UNCHANGED <<extractVars, dateVars, mainVars, expandVars, selectVars>>

SpecResolve == Init /\ [][NextResolve]_vars

NextDate ==
    \/ Tick /\ UNCHANGED <<extractVars, call, mainVars, expandVars, selectVars>>
    \/ FilterPost /\ UNCHANGED <<extractVars, call, mainVars, expandVars, selectVars>>
    \/ CallIsWithinPeriod /\ UNCHANGED <<extractVars, call, mainVars, expandVars, selectVars>>
    \/ Parse /\ UNCHANGED <<extractVars, call, mainVars, expandVars, selectVars>>
    \/ Compare /\ UNCHANGED <<extractVars, call, mainVars, expandVars, selectVars>>
    \/ NextPost /\ UNCHANGED <<extractVars, call, mainVars, expandVars, selectVars>>

SpecDate == Init /\ [][NextDate]_vars

NextNormalize ==
    \/ ReturnResolve /\ UNCHANGED <<extractVars, dateVars, mainVars, expandVars, selectVars>>
    \/ CallNormalize /\ UNCHANGED <<extractVars, dateVars, mainVars, expandVars, selectVars>>
    \/ CallNormalizeLower /\ UNCHANGED <<extractVars, dateVars, mainVars, expandVars, selectVars>>

SpecNormalize == Init /\ [][NextNormalize]_vars

NextMain ==
    \/ ReadInputs /\ UNCHANGED <<extractVars, call, dateLocals, expandVars, selectVars>>
    \/ ConnectOverCdp /\ UNCHANGED <<extractVars, call, dateLocals, expandVars, selectVars>>
    \/ CheckContexts /\ UNCHANGED <<extractVars, call, dateLocals, expandVars, selectVars>>
    \/ AttachPage /\ UNCHANGED <<extractVars, call, dateLocals, expandVars, selectVars>>
    \/ ScrollStep /\ UNCHANGED <<extractVars, call, dateLocals, expandVars, selectVars>>
    \/ ExpandAllComments /\ UNCHANGED <<extractVars, call, dateLocals, expandVars, selectVars>>
    \/ ExtractRawBlocks /\ UNCHANGED <<extractVars, call, dateLocals, expandVars, selectVars>>
    \/ FilterAndAdapt /\ UNCHANGED <<extractVars, call, dateLocals, expandVars, selectVars>>
    \/ PeriodFilterPost /\ UNCHANGED <<extractVars, call, dateLocals, expandVars, selectVars>>
    \/ PeriodFilterDone /\ UNCHANGED <<extractVars, call, dateLocals, expandVars, selectVars>>
    \/ GenerateReport /\ UNCHANGED <<extractVars, call, dateLocals, expandVars, selectVars>>
    \/ Cleanup /\ UNCHANGED <<extractVars, call, dateLocals, expandVars, selectVars>>

SpecMain == Init /\ [][NextMain]_vars

----------------------------------------------------------------------------
(* Properties of SpecExtract *)

\* the lists of the block under construction and of the pushed block
BlockViews ==
    {[dataAttrs |-> dataAttrs, authorCandidates |-> authors,
      timestampCandidates |-> timestamps, links |-> links,
      images |-> images]}
    \cup
    (IF pushed = NoBlock
        THEN {}
        ELSE {[dataAttrs |-> pushed.dataAttrs,
               authorCandidates |-> pushed.authorCandidates,
               timestampCandidates |-> pushed.timestampCandidates,
               links |-> pushed.links,
               images |-> pushed.images]})

\* C1: in every RawBlock the author and timestamp candidate lists have at
\* most 5 entries, the links and images lists at most 30, and the
\* data-attribute mapping at most 10, at every point of the harvest.
C1_Caps ==
    \A b \in BlockViews :
        /\ Len(b.authorCandidates) <= 5
        /\ Len(b.timestampCandidates) <= 5
        /\ Len(b.links) <= 30
        /\ Len(b.images) <= 30
        /\ Cardinality(DOMAIN b.dataAttrs) <= 10

\* the author scan met more than 5 distinct texts and the list is full
C1_Witness ==
    /\ pc = "authors"
    /\ Len(authors) = 5
    /\ Cardinality({AuthorText(scan[i]) : i \in 1..Len(scan)} \ {Empty}) > 5

IsTrimmed(s) == s # <<>> /\ Head(s) \notin WS /\ s[Len(s)] \notin WS

\* positions of vals holding the first occurrence of a non-empty value
FirstOccurrences(vals) ==
    {i \in 1..Len(vals) :
        vals[i] # Empty /\ \A j \in 1..(i - 1) : vals[j] # vals[i]}

\* list is the first (up to cap) distinct non-empty values of vals, in order
IsFirstDistinct(list, vals, cap) ==
    LET occ == FirstOccurrences(vals)
    IN  /\ Len(list) = IF Cardinality(occ) < cap THEN Cardinality(occ) ELSE cap
        /\ \A k \in 1..Len(list) :
            \E i \in occ :
                /\ vals[i] = list[k]
                /\ Cardinality({j \in occ : j < i}) = k - 1

\* C2: the author and timestamp candidate lists hold only non-empty trimmed
\* strings, hold no string twice, and are the first (up to 5) distinct
\* values met by the scan, in first-occurrence order.
C2_CandidateLists ==
    /\ \A b \in BlockViews :
        /\ NoDuplicates(b.authorCandidates)
        /\ NoDuplicates(b.timestampCandidates)
        /\ \A s \in Range(b.authorCandidates) : IsTrimmed(s)
        /\ \A s \in Range(b.timestampCandidates) : IsTrimmed(s)
    /\ pc = "authors" =>
        IsFirstDistinct(authors,
            [i \in 1..Len(scan) |-> AuthorText(scan[i])], 5)
    /\ pc = "timestamps" =>
        IsFirstDistinct(timestamps,
            [i \in 1..Len(scan) |-> TimestampValue(scan[i])], 5)

\* the timestamp scan met the same value twice, a padded value and a blank
C2_Witness ==
    /\ pc = "timestamps"
    /\ Len(timestamps) >= 2
    /\ \E i, j \in 1..Len(scan) :
        /\ i < j
        /\ TimestampValue(scan[i]) = TimestampValue(scan[j])
        /\ TimestampValue(scan[i]) # Empty
    /\ \E i \in 1..Len(scan) : TimestampValue(scan[i]) = Empty

\* C3 as stated: the links list and the images list hold no entry twice.
C3_NoDuplicateEntries ==
    \A b \in BlockViews : NoDuplicates(b.links) /\ NoDuplicates(b.images)

\* C3 amended: the links list holds one entry per scanned anchor with a
\* non-empty trimmed href, in scan order, equal entries included, and the
\* scan stops at 30 entries; likewise the images list for images with a
\* non-empty src or srcset.
C3_EveryEntryRecorded ==
    /\ pc \in {"links", "linksBreak"} =>
        LET kept == SelectSeq(scan, LAMBDA a : Trim(Or(a.href, Empty)) # Empty)
        IN  /\ Len(links) = Len(kept)
            /\ \A i \in 1..Len(kept) :
                /\ links[i].href = Trim(Or(kept[i].href, Empty))
                /\ links[i].text = Trim(Or(kept[i].innerText, Empty))
            /\ Len(links) <= 30
            /\ (pc = "linksBreak") = (Len(links) = 30)
    /\ pc \in {"images", "imagesBreak"} =>
        LET kept == SelectSeq(scan, LAMBDA img : ~ImageSkipped(img))
        IN  /\ Len(images) = Len(kept)
            /\ \A i \in 1..Len(kept) : images[i] = ImageEntry(kept[i])
            /\ Len(images) <= 30
            /\ (pc = "imagesBreak") = (Len(images) = 30)

\* two anchors with the same href and text were scanned and both recorded
C3_Witness ==
    /\ pc \in {"links", "linksBreak"}
    /\ \E i, j \in 1..Len(links) : i < j /\ links[i] = links[j]

----------------------------------------------------------------------------
(* Properties of SpecResolve *)

\* a candidate that clean_author may choose
C4_Qualifies(c) ==
    /\ c # Null
    /\ Len(Trim(c)) >= 2
    /\ Lower(Trim(c)) \notin
           {<<"c", "o", "m", "m", "e", "n", "t">>,
            <<"r", "e", "p", "l", "y">>,
            <<"s", "h", "a", "r", "e", "d">>,
            <<"s", "h", "a", "r", "e">>}

C4_FirstQualifying(list) ==
    CHOOSE i \in 1..Len(list) :
        /\ C4_Qualifies(list[i])
        /\ \A j \in 1..(i - 1) : ~C4_Qualifies(list[j])

\* C4 as stated: clean_author returns the first candidate, in original
\* order, whose stripped form has length at least 2 and is not a noise
\* word, and "Unknown Author" when no candidate qualifies.
C4_ReturnsCandidate ==
    call.fn = "clean_author" =>
        IF \E i \in 1..Len(call.arg) : C4_Qualifies(call.arg[i])
            THEN call.ret = call.arg[C4_FirstQualifying(call.arg)]
            ELSE call.ret = UnknownAuthor

\* C4 amended: clean_author returns the stripped form of the first
\* candidate, in original order, whose stripped form has length at least 2
\* and is not a noise word (case-insensitively), and "Unknown Author" when
\* no candidate qualifies; the result is never empty.
C4_ReturnsStrippedCandidate ==
    call.fn = "clean_author" =>
        /\ IF \E i \in 1..Len(call.arg) : C4_Qualifies(call.arg[i])
               THEN call.ret = Trim(call.arg[C4_FirstQualifying(call.arg)])
               ELSE call.ret = UnknownAuthor
        /\ call.ret # Empty
        /\ call.arg = <<>> => call.ret = UnknownAuthor
        /\ call.arg = <<<<"R", "e", "p", "l", "y">>, <<"J", "a", "n", "e", " ", "D", "o", "e">>>>
               => call.ret = <<"J", "a", "n", "e", " ", "D", "o", "e">>

\* a noise word in another case comes first and the chosen candidate
\* carries surrounding whitespace
C4_Witness ==
    /\ call.fn = "clean_author"
    /\ Len(call.arg) >= 2
    /\ call.arg[1] = <<"R", "e", "p", "l", "y">>
    /\ call.arg[2] = <<" ", "J", "o", " ">>
    /\ call.ret = <<"J", "o">>

\* C5: clean_timestamp returns a candidate of maximal length, the first of
\* that length in list order, and the empty string for the empty list.
C5_LongestFirst ==
    call.fn = "clean_timestamp" =>
        IF call.arg = <<>>
            THEN call.ret = Empty
            ELSE \E i \in 1..Len(call.arg) :
                    /\ call.ret = call.arg[i]
                    /\ \A j \in 1..Len(call.arg) :
                        Len(call.arg[j]) <= Len(call.arg[i])
                    /\ \A j \in 1..(i - 1) :
                        Len(call.arg[j]) < Len(call.arg[i])

\* two different candidates share the maximal length and a shorter one
\* comes before them
C5_Witness ==
    /\ call.fn = "clean_timestamp"
    /\ Len(call.arg) = 3
    /\ Len(call.arg[1]) < Len(call.arg[2])
    /\ Len(call.arg[2]) = Len(call.arg[3])
    /\ call.arg[2] # call.arg[3]
    /\ call.ret = call.arg[2]

C6_Markers ==
    {"/posts/", "permalink", "__cft__", "multi_permalinks", "__tn__"}

C6_Absolutized(i) == Urljoin(call.base, Or(call.arg[i].href, Empty))

C6_Matches(i) == \E m \in C6_Markers : Contains(C6_Absolutized(i), m)

\* C6: extract_permalink returns the empty string for no links, else the
\* absolutized href of the first link, in original order, that contains
\* any marker, else the absolutized href of the first link.
C6_FirstMarkedLink ==
    call.fn = "extract_permalink" =>
        /\ call.arg = <<>> => call.ret = Empty
        /\ \A i \in 1..Len(call.arg) :
            (C6_Matches(i) /\ \A j \in 1..(i - 1) : ~C6_Matches(j))
                => call.ret = C6_Absolutized(i)
        /\ (call.arg # <<>> /\ \A i \in 1..Len(call.arg) : ~C6_Matches(i))
                => call.ret = C6_Absolutized(1)
        /\ (call.arg = <<[href |-> <<"/", "x", "/posts/", "123">>,
                          text |-> <<"t">>]>>
            /\ call.base = <<"https://site.example", "/">>)
                => call.ret = <<"https://site.example", "/", "x", "/posts/",
                                "123">>

\* an unmarked link, then a link with the lowest-priority marker, then one
\* with the highest-priority marker: the second is returned
C6_Witness ==
    /\ call.fn = "extract_permalink"
    /\ Len(call.arg) = 3
    /\ ~C6_Matches(1)
    /\ Contains(C6_Absolutized(2), "__tn__")
    /\ ~Contains(C6_Absolutized(2), "/posts/")
    /\ Contains(C6_Absolutized(3), "/posts/")
    /\ call.ret = C6_Absolutized(2)
    /\ call.ret # call.arg[2].href

----------------------------------------------------------------------------
(* Properties of SpecDate *)

\* days of the current year before each month
C7_DaysBefore == <<0, 31, 59, 90, 120, 151, 181, 212, 243, 273, 304, 334>>

\* C7: for a timestamp that is an absolute day and month, in either word
\* order, month name full or abbreviated, with or without " at HH:MM",
\* parse_facebook_date returns a time on that day of that month of the
\* current year.
C7_AbsoluteDayAndMonth ==
    (rec.kind = "absolute" /\ parsed # Unset) =>
        /\ parsed.k = "time"
        /\ parsed.min >= 0
        /\ parsed.min \div 1440 = C7_DaysBefore[rec.month] + rec.day - 1

\* C8: parse_facebook_date and is_within_period never raise, whatever the
\* timestamp string: the result is a point in time or unknown and the
\* period filter completes for every record.
C8_NeverRaises ==
    /\ parsed # Raised
    /\ verdict # "raised"
    /\ dpc # "aborted"

\* C9: with a window W > 0 a record stamped "N <unit>" is kept if and only
\* if the date N units before now is at or after now minus W days: "N d" is
\* kept whenever N <= W, N = W included, and dropped whenever N > W.
C9_KeptIffWithinWindow ==
    (dpc = "done" /\ days > 0 /\ rec.kind = "relative") =>
        (verdict = "kept") <=>
            (rec.n * UnitMinutes(rec.unit) <= days * 1440)

\* C10: a record whose timestamp is empty or cannot be parsed is kept for
\* every window, and with window 0 every record is kept whatever its
\* timestamp.
C10_UnknownOrDisabledKept ==
    /\ (rec.kind = "unknown" \/ (caller # "none" /\ days = 0)) =>
        /\ verdict \in {"pending", "kept"}
        /\ dpc # "aborted"
        /\ parsed \in {Unset, NoneDate}
    /\ (dpc = "done" /\ (rec.kind = "unknown" \/ days = 0
                         \/ parsed = NoneDate)) =>
        verdict = "kept"

\* main() filtered, with a window above 0, a post whose non-empty timestamp
\* does not parse, and kept it
C10_Witness ==
    /\ dpc = "done"
    /\ caller = "main"
    /\ days > 0
    /\ rec.kind = "unknown"
    /\ rec.text # <<>>
    /\ parsed = NoneDate
    /\ verdict = "kept"

\* C11: for "N <unit>" with unit minute(s)/min/m, hour(s)/h, day(s)/d or
\* week(s)/w, with or without "ago", and N within the representable date
\* range, parse_facebook_date returns the time it read as now minus N of
\* that unit; "yesterday" gives now minus one day.
C11_RelativeBeforeNow ==
    (/\ rec.kind \in {"relative", "yesterday"}
     /\ parsed # Unset
     /\ ~Underflows(clock, rec.n, rec.unit)) =>
        /\ parsed.k = "time"
        /\ parsed.min = clock.min - rec.n * UnitMinutes(rec.unit)
        /\ parsed.sub <= clock.sub

\* "7 weeks ago" was parsed as 49 days before now
C11_Witness ==
    /\ rec.kind = "relative"
    /\ rec.text = <<Num(7), Sp, Word("weeks"), Sp, Word("ago")>>
    /\ parsed = At(clock.min - 49 * 1440, parsed.sub)
    /\ parsed.k = "time"

----------------------------------------------------------------------------
(* Properties of SpecNormalize *)

C17_Removed(s) == SelectSeq(s, LAMBDA c : c \notin Range(ZeroWidthChars))

\* every maximal run of whitespace replaced by one space
RECURSIVE C17_Collapsed(_)
C17_Collapsed(s) ==
    IF s = <<>> THEN <<>>
    ELSE IF Head(s) \in WS THEN <<" ">> \o C17_Collapsed(TrimLeft(s))
    ELSE <<Head(s)>> \o C17_Collapsed(Tail(s))

C17_Specified(s) ==
    IF s = Null \/ s = Empty
        THEN Empty
        ELSE Trim(C17_Collapsed(C17_Removed(s)))

\* C17: normalize(s) is s with the six zero-width and bidi-control
\* characters removed, then every whitespace run replaced by one space,
\* then trimmed; "a" U+200B space space "b" gives "a b"; normalize_lower is
\* that result lowercased; an empty or missing input gives the empty
\* string.
C17_NormalizeAsSpecified ==
    /\ call.fn = "normalize" => call.ret = C17_Specified(call.arg)
    /\ call.fn = "normalize_lower" =>
           call.ret = Lower(C17_Specified(call.arg))
    /\ (call.fn = "normalize"
        /\ call.arg = <<"a", "U+200B", " ", " ", "b">>) =>
           call.ret = <<"a", " ", "b">>
    /\ (call.fn \in {"normalize", "normalize_lower"}
        /\ call.arg \in {Null, Empty}) =>
           call.ret = Empty

\* normalize was given "a" U+200B space space "b" and returned "a b"
C17_Witness ==
    /\ call.fn = "normalize"
    /\ call.arg = <<"a", "U+200B", " ", " ", "b">>
    /\ call.ret = <<"a", " ", "b">>

\* C18: normalize and normalize_lower are idempotent: applied to their own
\* result they return it unchanged.
C18_Idempotent ==
    /\ call.fn = "normalize" => Normalize(call.ret) = call.ret
    /\ call.fn = "normalize_lower" => NormalizeLower(call.ret) = call.ret

\* normalize_lower changed a text that holds a zero-width character between
\* two whitespace characters and an upper-case letter
C18_Witness ==
    /\ call.fn = "normalize_lower"
    /\ \E i \in 2..(Len(call.arg) - 1) :
           /\ call.arg[i] = "U+200B"
           /\ call.arg[i - 1] \in WS
           /\ call.arg[i + 1] \in WS
    /\ "B" \in Range(call.arg)
    /\ call.ret # <<>>
    /\ NormalizeLower(call.ret) = call.ret

----------------------------------------------------------------------------
(* Properties of SpecMain *)

\* the text filter of this run is over
C12_TextFilterOver == Includes(log, "extract") /\ mpc # "filter"

\* both filters of this run are over
C13_FiltersOver == mpc \in {"report", "cleanup", "exit"}

C12_Survives(b) ==
    \E j \in 1..Len(raw_blocks) : raw_blocks[j].index = b.index

\* C12: with a non-empty text filter a record survives if and only if the
\* lowercased filter is a substring of the lowercased body text its
\* ResolvedPost carries; with an empty filter the text filter drops nothing.
C12_KeptIffBodyTextMatches ==
    C12_TextFilterOver =>
        \A i \in 1..Len(page.blocks) :
            IF opts.filter_text = Empty
                THEN C12_Survives(page.blocks[i])
                ELSE C12_Survives(page.blocks[i]) <=>
                         IsSubstring(opts.filter_text,
                             Lower(AdaptBlock(page.blocks[i], page.url).text))

C13_TextHolds(p) ==
    opts.filter_text = Empty \/ TextMatches(p.raw_block, opts.filter_text)

C13_Increasing(indices) ==
    \A i, j \in 1..Len(indices) : i < j => indices[i] < indices[j]

\* C13: once both filters are over, the posts left are exactly those of the
\* page, resolved and sorted, for which both the text predicate and the
\* period predicate hold, with either filter taken first; each filter
\* leaves its survivors in the order of its input.  The period predicate of
\* a post is what is_within_period answered for it; for a post the period
\* filter never saw it may be either answer.
C13_FiltersConjoinInOrder ==
    C13_FiltersOver =>
        LET all == AdaptFacebookBlocks(page.blocks, page.url)
            input == AdaptFacebookBlocks(raw_blocks, page.url)
            seen == {input[j].post_index : j \in 1..Len(results)}
            kept == {input[j].post_index :
                        j \in {k \in 1..Len(results) : results[k] = "kept"}}
            PeriodHolds(p, other) ==
                \/ opts.period_days = 0
                \/ p.post_index \in kept
                \/ other /\ p.post_index \notin seen
            position == [idx \in seen |->
                            CHOOSE j \in 1..Len(input) :
                                input[j].post_index = idx]
        IN  /\ adapted = SelectSeq(all,
                   LAMBDA p : C13_TextHolds(p) /\ PeriodHolds(p, FALSE))
            /\ \A other \in BOOLEAN :
                   adapted = SelectSeq(
                       SelectSeq(all, LAMBDA p : PeriodHolds(p, other)),
                       LAMBDA p : C13_TextHolds(p))
            /\ adapted = SelectSeq(
                   SelectSeq(all, LAMBDA p : C13_TextHolds(p)),
                   LAMBDA p : PeriodHolds(p, FALSE))
            /\ C13_Increasing([i \in 1..Len(raw_blocks) |->
                                  raw_blocks[i].index])
            /\ opts.period_days > 0 =>
                   C13_Increasing([i \in 1..Len(adapted) |->
                                      position[adapted[i].post_index]])

\* of three blocks the text filter dropped one and the period filter, under
\* a 7-day window, another
C13_Witness ==
    /\ mpc = "exit"
    /\ opts.filter_text = <<"a", "b">>
    /\ opts.period_days = 7
    /\ Len(page.blocks) = 3
    /\ Len(raw_blocks) = 2
    /\ Range(results) = {"kept", "dropped"}
    /\ Len(adapted) = 1

C14_InNormalForm(s) ==
    /\ \A i \in 1..Len(s) : s[i] \notin Range(ZeroWidthChars)
    /\ \A i \in 1..(Len(s) - 1) : ~(s[i] \in WS /\ s[i + 1] \in WS)
    /\ Trim(s) = s

\* C14: the body text, the author and the timestamp of every ResolvedPost
\* are in normalizeText form: none of the six zero-width and bidi-control
\* characters, no run of two or more whitespace characters, no leading or
\* trailing whitespace.
C14_TextFieldsNormalized ==
    \A i \in 1..Len(adapted) :
        /\ C14_InNormalForm(adapted[i].text)
        /\ C14_InNormalForm(adapted[i].author)
        /\ StripTokens(adapted[i].timestamp) = adapted[i].timestamp

\* C15: every link href and every image URL of a ResolvedPost is absolute,
\* the raw href or src resolved against the page URL.
C15_UrlsAbsolute ==
    \A i \in 1..Len(adapted) :
        /\ \A k \in 1..Len(adapted[i].links) :
               /\ IsAbsoluteUrl(adapted[i].links[k].href)
               /\ adapted[i].links[k].href =
                      Urljoin(page.url,
                              Or(adapted[i].raw_block.links[k].href, Empty))
        /\ \A k \in 1..Len(adapted[i].images) :
               IsAbsoluteUrl(adapted[i].images[k])

\* C16: for an image descriptor with an empty src and a non-empty srcset
\* the ResolvedPost carries the last candidate URL of the srcset,
\* absolutized against the page URL.
C16_SrcsetImageKept ==
    \A i \in 1..Len(adapted) :
        \A k \in 1..Len(adapted[i].raw_block.images) :
            LET im == adapted[i].raw_block.images[k]
                parts == SrcsetParts(Or(im.srcset, Empty))
            IN  (Or(im.src, Empty) = Empty /\ parts # <<>>) =>
                    Includes(adapted[i].images,
                             Urljoin(page.url, parts[Len(parts)]))

\* C19: the report holds exactly one group per distinct resolved author,
\* each with all the posts of that author, the groups in ascending order of
\* the lowercased author; three blocks, two with the author candidate
\* "Jane Doe" and one with no author candidate, give the two groups
\* "Jane Doe" with 2 posts and then "Unknown Author" with 1 post.
C19_OneGroupPerAuthor ==
    Includes(log, "report") =>
        /\ \A i, j \in 1..Len(report) :
               report[i].author = report[j].author => i = j
        /\ {report[i].author : i \in 1..Len(report)} =
               {adapted[i].author : i \in 1..Len(adapted)}
        /\ \A i \in 1..Len(report) :
               report[i].posts =
                   SelectSeq(adapted,
                             LAMBDA p : p.author = report[i].author)
        /\ \A i, j \in 1..Len(report) :
               i < j => ~StrLess(Lower(report[j].author),
                                 Lower(report[i].author))
        /\ (/\ Len(adapted) = 3
            /\ Cardinality({i \in 1..3 :
                   adapted[i].raw_block.authorCandidates = <<JaneDoe>>}) = 2
            /\ Cardinality({i \in 1..3 :
                   adapted[i].raw_block.authorCandidates = <<>>}) = 1) =>
               /\ Len(report) = 2
               /\ report[1].author = JaneDoe
               /\ Len(report[1].posts) = 2
               /\ report[2].author = UnknownAuthor
               /\ Len(report[2].posts) = 1

\* the report of a run over three blocks, two by "Jane Doe" and one with no
\* author candidate, none of them filtered out
C19_Witness ==
    /\ Includes(log, "report")
    /\ Len(page.blocks) = 3
    /\ Len(adapted) = 3
    /\ page.blocks[1].authorCandidates = <<>>
    /\ page.blocks[2].authorCandidates = <<JaneDoe>>
    /\ page.blocks[3].authorCandidates = <<JaneDoe>>
    /\ Len(report) = 2
    /\ report[1].author = JaneDoe
    /\ report[2].author = UnknownAuthor

\* C20: when the connection fails, or the browser has no context or no
\* page, the run ends having scrolled, expanded, extracted and written
\* nothing; whatever the run does to the page or the disk, it does with a
\* browser connected and a page attached.
C20_NoPartialOutput ==
    /\ (mpc = "returned" \/ (mpc = "crashed" /\ page = NoPage)) =>
           /\ log = <<>>
           /\ raw_blocks = <<>>
           /\ adapted = <<>>
           /\ report = <<>>
    /\ log # <<>> => (browser # "none" /\ page # NoPage)

\* the operator asked for scroll and expansion, the connection failed and
\* main() returned
C20_Witness ==
    /\ mpc = "returned"
    /\ browser = "none"
    /\ opts.do_scroll
    /\ opts.do_expand
    /\ log = <<>>

----------------------------------------------------------------------------
(* Properties of SpecHarvest *)

\* the field of a block that a harvesting step fills
C21_Field(block, step) ==
    CASE step = "text" -> block.text
      [] step = "authors" -> block.authorCandidates
      [] step = "timestamps" -> block.timestampCandidates
      [] step = "links" -> block.links
      [] step = "images" -> block.images

\* C21: a field whose harvesting step threw is empty in the block of that
\* candidate.
C21_ThrownFieldEmpty ==
    pushed # NoBlock =>
        \A step \in HarvestSteps :
            <<pushed.index, step>> \in thrown =>
                C21_Field(pushed, step) = Empty

----------------------------------------------------------------------------
(* Properties of SpecExpand *)

\* the step is a click that timed out or failed
C22_ClickFailed == epc = "button" /\ tried' = tried + 1 /\ last' = "click_failed"

\* the step is a query that failed
C22_QueryFailed == epc = "query" /\ selector <= NumSelectors /\ last' = "query_failed"

\* C22: a failed click leaves clicks_made and found_any alone and the loop
\* goes on with the next button of the same selector; a failed query makes
\* the loop go on with the next selector; no failure ends the function with
\* an exception.
C22_FailuresNotFatal ==
    [][/\ C22_ClickFailed =>
            /\ clicks_made' = clicks_made
            /\ found_any' = found_any
            /\ epc' = "button"
            /\ selector' = selector
       /\ C22_QueryFailed =>
            /\ clicks_made' = clicks_made
            /\ selector' = selector + 1
            /\ epc' = "query"
       /\ epc' \in {"while", "query", "button", "settle", "scrolled",
                    "done"}]_vars

\* the third button's click failed after one click had succeeded in this
\* pass
C22_Witness ==
    /\ last = "click_failed"
    /\ iteration = 1
    /\ tried = 3
    /\ clicks_made = 1
    /\ found_any

\* C26: at every point of the run clicks_made <= max_clicks, and with
\* max_clicks = 0 no button is clicked.
C26_ClicksWithinBudget ==
    epc # "idle" =>
        /\ clicks_made <= max_clicks
        /\ max_clicks = 0 => (clicks_made = 0 /\ last = "none")

\* C27: expand_all_comments terminates, after at most 50 passes and with at
\* most 5 buttons tried per selector and pass.
C27_Terminates ==
    /\ <>(epc = "done")
    /\ [](iteration <= PassCap /\ tried <= ButtonCap)

\* the 50th pass made a click and the budget is not used up: the page still
\* offers buttons and the pass cap ends the loop
C27_Witness ==
    /\ epc = "done"
    /\ iteration = PassCap
    /\ found_any
    /\ clicks_made < max_clicks

\* C28: the browser call after a successful click is the 1500 ms wait and
\* the one after a scroll is the 1000 ms wait; a pass ends with a scroll
\* when a click succeeded in it and ends the loop, without a scroll,
\* otherwise; a later pass starts right after the wait that follows the
\* scroll; nothing is issued once the loop has ended.
C28_WaitsBetweenCalls ==
    [][/\ last = "click" => last' = "wait_1500"
       /\ last = "scroll" => last' = "wait_1000"
       /\ (epc = "query" /\ selector > NumSelectors) =>
            IF found_any
               THEN last' = "scroll"
               ELSE epc' = "done" /\ last' = last
       /\ (last' = "scroll" /\ last # "scroll") =>
            (found_any /\ epc = "query" /\ selector > NumSelectors)
       /\ (iteration' # iteration /\ iteration >= 1) => last = "wait_1000"
       /\ epc = "done" => last' = last]_vars

\* the first pass made one click, the second none: the loop ended there,
\* and the last call is a query of that pass, not a scroll
C28_Witness ==
    /\ epc = "done"
    /\ iteration = 2
    /\ clicks_made = 1
    /\ ~found_any
    /\ last \in {"query", "query_failed", "is_visible"}

----------------------------------------------------------------------------
(* Properties of SpecMain, continued *)

\* C29: when main() has returned, on the normal path or on an early
\* return, the driver it started is stopped and the connection it opened is
\* closed.
C29_DriverStopped ==
    mpc \in {"exit", "returned"} =>
        /\ playwright # "started"
        /\ browser # "connected"

\* C23: once the text filter and adapt_facebook_blocks have run, the list
\* extract_raw_blocks returned still holds the blocks of the page in
\* extraction order, the list handed to adapt_facebook_blocks still holds
\* the blocks the filter kept, in extraction order, the list it returned is
\* what it was before the period filter ran, and the raw block of every
\* post has the field values the extractor gave it.
C23_InputsUnchanged ==
    (Count(log, "extract") = 1 /\ mpc # "filter") =>
        LET filtered == TextFilter(page.blocks, opts.filter_text)
            posts == AdaptFacebookBlocks(filtered, page.url)
        IN  /\ extracted = page.blocks
            /\ raw_blocks = filtered
            /\ returned = posts
            /\ \A i \in 1..Len(adapted) :
                adapted[i].raw_block = page.blocks[adapted[i].post_index]
            /\ \A i \in 1..Len(returned) :
                returned[i].raw_block = page.blocks[returned[i].post_index]

\* both filters dropped something and the sort by author moved a post
\* forward
C23_Witness ==
    /\ mpc = "exit"
    /\ Len(raw_blocks) < Len(extracted)
    /\ Len(adapted) < Len(returned)
    /\ \E i, j \in 1..Len(returned) :
        i < j /\ returned[i].post_index > returned[j].post_index

\* the sizes of the groups, added up
RECURSIVE C30_GroupSizes(_)
C30_GroupSizes(groups) ==
    IF groups = <<>> THEN 0
    ELSE Len(Head(groups).posts) + C30_GroupSizes(Tail(groups))

\* C30: every block the text filter kept has exactly one post in the list
\* adapt_facebook_blocks returned, carrying the block and the index the
\* extractor gave it, which is its position among the blocks of the page;
\* every post the period filter kept is at exactly one place of exactly one
\* group of the report, the group sizes add up to the number of those
\* posts, and inside a group post_index ascends.
C30_OnePostPerBlock ==
    /\ (Count(log, "extract") = 1 /\ mpc # "filter") =>
        /\ Len(returned) = Len(raw_blocks)
        /\ \A n \in 1..Len(raw_blocks) :
            LET b == raw_blocks[n]
                mine == {i \in 1..Len(returned) : returned[i].raw_block = b}
            IN  /\ Cardinality(mine) = 1
                /\ page.blocks[b.index] = b
                /\ \A i \in mine : returned[i].post_index = b.index
    /\ Includes(log, "report") =>
        /\ \A n \in 1..Len(adapted) :
            Cardinality({gk \in (1..Len(report)) \X (1..Len(adapted)) :
                /\ gk[2] <= Len(report[gk[1]].posts)
                /\ report[gk[1]].posts[gk[2]] = adapted[n]}) = 1
        /\ C30_GroupSizes(report) = Len(adapted)
        /\ \A g \in 1..Len(report) :
            \A i, j \in 1..Len(report[g].posts) :
                i < j => report[g].posts[i].post_index
                            < report[g].posts[j].post_index

\* the filters dropped the first block, the two blocks left are by the
\* same author and make one group, in which post 2 comes before post 3
C30_Witness ==
    /\ Includes(log, "report")
    /\ Len(page.blocks) = 3
    /\ Len(report) = 1
    /\ Len(report[1].posts) = 2
    /\ report[1].posts[1].post_index = 2
    /\ report[1].posts[2].post_index = 3

----------------------------------------------------------------------------
(* Properties of SpecSelect *)

\* the class attribute of an element
C24_Class(el) == Shapes[el.shape].className

\* C24: the fallback runs iff the signature query yields fewer than 5
\* elements; when it runs it appends at most 200 elements, each with a
\* class string that at least 5 elements of the root region carry, and the
\* pass has at most 204 candidates and blocks; when it does not run, the
\* candidates are the signature matches.
C24_FallbackRule ==
    spc \in {"dedupe", "loop", "done"} =>
        LET sig == SignatureQuery(dom)
            root == SelectSeq(Elements(dom), LAMBDA el : InRoot(dom, el))
            classes == {C24_Class(extra[i]) : i \in 1..Len(extra)}
        IN  /\ fallback <=> Len(sig) < 5
            /\ fallback =>
                /\ Len(extra) <= 200
                /\ Empty \notin classes
                /\ \A cls \in classes :
                    Cardinality({j \in 1..Len(root) :
                                    C24_Class(root[j]) = cls}) >= 5
                /\ Len(candidates) <= 204
                /\ Len(yielded) <= 204
            /\ ~fallback => (candidates = sig /\ extra = <<>>)

\* four articles and more than 200 divs of one class: 200 of them are
\* appended and the pass yields 204 blocks
C24_Witness ==
    /\ spc = "done"
    /\ fallback
    /\ Len(extra) = 200
    /\ Len(yielded) = 204

\* C25: the returned blocks are of pairwise different elements, every
\* element the signature query or the fallback gave has its block, block i
\* has index i, and the blocks are in the order in which their elements
\* first occur among the signature matches followed by the appended ones.
C25_OneBlockPerElement ==
    spc = "done" =>
        LET seen == SignatureQuery(dom) \o extra
            n == Len(yielded)
            at == [i \in 1..n |->
                      CHOOSE k \in 1..Len(seen) :
                          /\ seen[k] = yielded[i].el
                          /\ \A j \in 1..(k - 1) : seen[j] # seen[k]]
        IN  /\ \A i \in 1..n : yielded[i].index = i
            /\ {yielded[i].el : i \in 1..n} = {seen[k] : k \in 1..Len(seen)}
            /\ Cardinality({yielded[i].el : i \in 1..n}) = n
            /\ \A i \in 1..(n - 1) : at[i] < at[i + 1]

\* an element that matches the signature query was appended by the
\* fallback as well
C25_Witness ==
    /\ spc = "done"
    /\ fallback
    /\ \E i \in 1..Len(extra) :
        \E k \in 1..Len(yielded) :
            /\ yielded[k].el = extra[i]
            /\ Shapes[extra[i].shape].signature
    /\ Len(yielded) > 1

====
